---- MODULE Spec2Model ----
(***************************************************************************)
(* Standard cost engine of stdcost: allocation, two-stage BOM rollup,      *)
(* period copy and variance analysis, modelled from                        *)
(*   backend/app/services/allocation.py                                    *)
(*   backend/app/services/cost_calculation.py                              *)
(*   backend/app/services/variance_analysis.py                             *)
(*                                                                         *)
(* Money is a Decimal quantized to 0.0001: an amount is modelled as the    *)
(* integer number of 0.0001 ticks.  Quantities, ratios and weights only    *)
(* enter through quotients, so they are modelled as integers in their own  *)
(* unit.  Python's Decimal context keeps 28 significant digits, far more   *)
(* than any value below, so every product and quotient is exact before     *)
(* quantize() rounds it.                                                   *)
(***************************************************************************)
EXTENDS Integers, Sequences, FiniteSets, Bags, TLC

(***************************************************************************)
(* Bounds of the model.                                                    *)
(***************************************************************************)
MaxItems == 3
MaxQty == 2
MaxTotal == 5
MaxAllocationRows == 4

(***************************************************************************)
(* Decimal helpers.                                                        *)
(***************************************************************************)
Abs(x) == IF x < 0 THEN -x ELSE x

\* (n / d).quantize(FOUR, ROUND_HALF_UP) for n already in ticks: the
\* quotient rounded to the nearest integer, halves away from zero.
RoundHalfUp(n, d) ==
    LET num == IF d < 0 THEN -n ELSE n
        den == Abs(d)
    IN  IF num >= 0
        THEN (2 * num + den) \div (2 * den)
        ELSE -((2 * (-num) + den) \div (2 * den))

RECURSIVE SumOver(_, _, _)
\* sum(f[s[i]] for i in 1..k): Python's sum() over the first k dict values
SumOver(f, s, k) == IF k = 0 THEN 0 ELSE SumOver(f, s, k - 1) + f[s[k]]

SeqToSet(s) == {s[i] : i \in 1..Len(s)}

\* the element of a set of one element: a value bound by "x \in {e}" is
\* computed once, however often x is used
TheOne(S) == CHOOSE x \in S : TRUE

\* the sequences over S of length lo..hi without repeated elements
DistinctSeqs(S, lo, hi) ==
    {s \in UNION {[1..n -> S] : n \in lo..hi} :
        \A i, j \in 1..Len(s) : i # j => s[i] # s[j]}

(***************************************************************************)
(* allocation.py                                                           *)
(*                                                                         *)
(* A dict is modelled by its keys in insertion order (a sequence without   *)
(* repeats) and a function from the keys to the values.                    *)
(***************************************************************************)

\* The share of the i-th item: quantized for every item but the last
AllocShare(total_budget, items, quantities, i) ==
    RoundHalfUp(total_budget * quantities[items[i]],
                SumOver(quantities, items, Len(items)))

RECURSIVE AllocatedSum(_, _, _, _)
\* allocated_sum after the first k items
AllocatedSum(total_budget, items, quantities, k) ==
    IF k = 0 THEN 0
    ELSE AllocatedSum(total_budget, items, quantities, k - 1)
         + AllocShare(total_budget, items, quantities, k)

\* Mutant: the last item gets its own rounded share instead of the remainder
allocate_by_quantity_rounded_last(total_budget, items, quantities) ==
    LET total_qty == SumOver(quantities, items, Len(items))
    IN  IF total_qty = 0
        THEN [k \in SeqToSet(items) |-> 0]
        ELSE [k \in SeqToSet(items) |->
                LET i == CHOOSE j \in 1..Len(items) : items[j] = k
                IN  AllocShare(total_budget, items, quantities, i)]

\* Mutant: the first item, not the last, takes the remainder
allocate_by_quantity_remainder_first(total_budget, items, quantities) ==
    LET total_qty == SumOver(quantities, items, Len(items))
        n == Len(items)
    IN  IF total_qty = 0
        THEN [k \in SeqToSet(items) |-> 0]
        ELSE [k \in SeqToSet(items) |->
                LET i == CHOOSE j \in 1..n : items[j] = k
                IN  IF i = 1
                    THEN total_budget
                         - (AllocatedSum(total_budget, items, quantities, n)
                            - AllocShare(total_budget, items, quantities, 1))
                    ELSE AllocShare(total_budget, items, quantities, i)]

allocate_by_quantity(total_budget, items, quantities) ==
    LET total_qty == SumOver(quantities, items, Len(items))
        n == Len(items)
    IN  IF total_qty = 0
        THEN [k \in SeqToSet(items) |-> 0]
        ELSE [k \in SeqToSet(items) |->
                LET i == CHOOSE j \in 1..n : items[j] = k
                IN  IF i = n
                    THEN total_budget
                         - AllocatedSum(total_budget, items, quantities, n - 1)
                    ELSE AllocShare(total_budget, items, quantities, i)]

\* Mutant: the quantities are divided by their sum without a look at it
allocate_by_quantity_raises_unguarded(total_budget, items, quantities) ==
    Len(items) > 1 /\ SumOver(quantities, items, Len(items)) = 0

\* does allocate_by_quantity raise: "total_budget * qty / total_qty", the
\* only division, raises when total_qty is zero; it is reached for an item
\* that is not the last, after "if total_qty == 0: return"
allocate_by_quantity_raises(total_budget, items, quantities) ==
    LET total_qty == SumOver(quantities, items, Len(items))
    IN  IF total_qty = 0 THEN FALSE
        ELSE Len(items) > 1 /\ total_qty = 0

\* Mutant: the ratios are divided by their sum without a look at it
allocate_by_ratio_raises_unguarded(total_budget, items, ratios) ==
    Len(items) > 1 /\ SumOver(ratios, items, Len(items)) = 0

\* does allocate_by_ratio raise, likewise
allocate_by_ratio_raises(total_budget, items, ratios) ==
    LET total_ratio == SumOver(ratios, items, Len(items))
    IN  IF total_ratio = 0 THEN FALSE
        ELSE Len(items) > 1 /\ total_ratio = 0

\* allocate_by_ratio repeats the loop of allocate_by_quantity over ratios
allocate_by_ratio(total_budget, items, ratios) ==
    LET total_ratio == SumOver(ratios, items, Len(items))
        n == Len(items)
    IN  IF total_ratio = 0
        THEN [k \in SeqToSet(items) |-> 0]
        ELSE [k \in SeqToSet(items) |->
                LET i == CHOOSE j \in 1..n : items[j] = k
                IN  IF i = n
                    THEN total_budget
                         - AllocatedSum(total_budget, items, ratios, n - 1)
                    ELSE RoundHalfUp(total_budget * ratios[k], total_ratio)]

\* load_allocation_rules: the active rules of the source cost center, by
\* priority descending (rules of equal priority keep their table order)
RECURSIVE InsertByPriority(_, _)
InsertByPriority(sorted, r) ==
    IF sorted = <<>> THEN <<r>>
    ELSE IF Head(sorted).priority >= r.priority
         THEN <<Head(sorted)>> \o InsertByPriority(Tail(sorted), r)
         ELSE <<r>> \o sorted

RECURSIVE SortByPriority(_)
SortByPriority(rs) ==
    IF rs = <<>> THEN <<>>
    ELSE InsertByPriority(SortByPriority(SubSeq(rs, 1, Len(rs) - 1)), rs[Len(rs)])

load_allocation_rules(ruleTable, source_cost_center_id) ==
    SortByPriority(SelectSeq(ruleTable,
        LAMBDA r : r.source_cost_center_id = source_cost_center_id /\ r.is_active))

NoRule == [id |-> 0]

\* Mutant: the first rule in priority order that is exact or wildcard
find_matching_rule_by_priority_only(rules, cost_element) ==
    LET hits == {i \in 1..Len(rules) :
                    rules[i].cost_element \in {cost_element, "NULL"}}
    IN  IF hits = {} THEN NoRule
        ELSE rules[CHOOSE i \in hits : \A j \in hits : i <= j]

\* _find_matching_rule: the first exact rule, else the first wildcard rule
find_matching_rule(rules, cost_element) ==
    LET exact == {i \in 1..Len(rules) : rules[i].cost_element = cost_element}
        wild == {i \in 1..Len(rules) : rules[i].cost_element = "NULL"}
    IN  IF exact # {} THEN rules[CHOOSE i \in exact : \A j \in exact : i <= j]
        ELSE IF wild # {} THEN rules[CHOOSE i \in wild : \A j \in wild : i <= j]
        ELSE NoRule

\* dict.get(key, 0)
Get(f, k) == IF k \in DOMAIN f THEN f[k] ELSE 0

\* compute_allocation_quantities: item_data maps each item to a dict of
\* metrics; a metric that is absent reads as 0
compute_allocation_quantities(basis, items, item_data) ==
    [k \in SeqToSet(items) |->
        CASE basis = "raw_material_quantity" -> Get(item_data[k], "raw_material_quantity")
          [] basis = "weight_based" -> Get(item_data[k], "weight")
          [] basis = "crude_quantity" -> Get(item_data[k], "crude_quantity")
          [] basis = "production_hours" ->
                IF "production_hours" \in DOMAIN item_data[k]
                   /\ item_data[k]["production_hours"] > 0
                THEN item_data[k]["production_hours"]
                ELSE Get(item_data[k], "raw_material_quantity")
          [] basis = "manual" -> 0
          [] OTHER -> Get(item_data[k], "raw_material_quantity")]

\* FOUR = Decimal("0.0001"): ticks in one unit
TicksPerUnit == 10000

\* _create_allocation_records: one CostAllocation row per key of the
\* allocation whose amount is not zero (executed_at, a wall-clock stamp, is
\* left out)
create_allocation_records(rule, period_id, source_cost_center_id, cost_element, keys, allocation, qitems, quantities) ==
    LET total_qty == SumOver(quantities, qitems, Len(qitems))
        Row(k) == [rule_id |-> rule.id,
                   period_id |-> period_id,
                   source_cost_center_id |-> source_cost_center_id,
                   target_cost_center_id |-> source_cost_center_id,
                   cost_element |-> cost_element,
                   item |-> k,
                   allocated_amount |-> allocation[k],
                   basis_quantity |-> Get(quantities, k),
                   ratio |-> IF total_qty > 0
                             THEN RoundHalfUp(Get(quantities, k) * TicksPerUnit, total_qty)
                             ELSE 0]
        F[i \in 0..Len(keys)] ==
            IF i = 0 THEN <<>>
            ELSE IF allocation[keys[i]] = 0 THEN F[i - 1]
                 ELSE Append(F[i - 1], Row(keys[i]))
    IN  F[Len(keys)]

\* Mutant: the audit rows are written in simulation mode too
WritesAllocationRecords_ignoring_simulate(simulate, period_id, matching_rule) ==
    period_id # 0 /\ matching_rule # NoRule

\* "if not simulate and period_id and matching_rule"
WritesAllocationRecords(simulate, period_id, matching_rule) ==
    ~simulate /\ period_id # 0 /\ matching_rule # NoRule

\* the keys of target_ratios in insertion order: the cost centers of the
\* rule's targets
target_keys(rule) ==
    [i \in 1..Len(rule.targets) |-> rule.targets[i].target_cost_center_id]

\* target_ratios, a dict comprehension over rule.targets: the last target of
\* a cost center wins
target_ratios(rule) ==
    [k \in SeqToSet(target_keys(rule)) |->
        rule.targets[CHOOSE j \in 1..Len(rule.targets) :
            /\ rule.targets[j].target_cost_center_id = k
            /\ \A m \in 1..Len(rule.targets) :
                    rule.targets[m].target_cost_center_id = k => m <= j].ratio]

\* the rule's ratios are used: a manual rule that has targets
UsesTargetRatios(matching_rule) ==
    /\ matching_rule # NoRule
    /\ matching_rule.basis = "manual"
    /\ Len(matching_rule.targets) > 0

\* the basis of the quantities: the rule's unless there is no rule or the
\* rule is manual, then default_basis
ElementBasis(matching_rule, default_basis) ==
    IF matching_rule # NoRule /\ matching_rule.basis # "manual"
    THEN matching_rule.basis
    ELSE default_basis

\* the end of a pass of the loop: result[cost_element] = allocation (keys in
\* order, amounts) and the CostAllocation rows the pass adds
ElementOutcome(matching_rule, source_cost_center_id, cost_element, keys, allocation, items, quantities, period_id, simulate) ==
    [keys |-> keys,
     amounts |-> allocation,
     records |->
        IF WritesAllocationRecords(simulate, period_id, matching_rule)
        THEN create_allocation_records(matching_rule, period_id,
                source_cost_center_id, cost_element, keys, allocation,
                items, quantities)
        ELSE <<>>]

\* the branches of a pass once the rule and the quantities are known
AllocateByRule(matching_rule, source_cost_center_id, cost_element, budget_amount, items, quantities, period_id, simulate) ==
    IF UsesTargetRatios(matching_rule)
    THEN ElementOutcome(matching_rule, source_cost_center_id, cost_element,
            target_keys(matching_rule),
            allocate_by_ratio(budget_amount, target_keys(matching_rule),
                              target_ratios(matching_rule)),
            items, quantities, period_id, simulate)
    ELSE ElementOutcome(matching_rule, source_cost_center_id, cost_element,
            items, allocate_by_quantity(budget_amount, items, quantities),
            items, quantities, period_id, simulate)

\* a pass once the rule is known
AllocateWithRule(matching_rule, source_cost_center_id, cost_element, budget_amount, items, item_data, period_id, simulate, default_basis) ==
    AllocateByRule(matching_rule, source_cost_center_id, cost_element,
        budget_amount, items,
        compute_allocation_quantities(ElementBasis(matching_rule, default_basis),
                                      items, item_data),
        period_id, simulate)

\* One pass of the loop of execute_rule_based_allocation, for one cost
\* element: a budget of zero allocates zero to every item and writes nothing
AllocateElement(rules, source_cost_center_id, cost_element, budget_amount, items, item_data, period_id, simulate, default_basis) ==
    IF budget_amount = 0
    THEN [keys |-> items,
          amounts |-> [k \in SeqToSet(items) |-> 0],
          records |-> <<>>]
    ELSE AllocateWithRule(find_matching_rule(rules, cost_element),
            source_cost_center_id, cost_element, budget_amount, items,
            item_data, period_id, simulate, default_basis)

\* the outcomes of the passes put together: result by cost element and the
\* CostAllocation rows in the order they were added
CollectOutcomes(elements, outcomes) ==
    LET Recs[i \in 0..Len(elements)] ==
            IF i = 0 THEN <<>> ELSE Recs[i - 1] \o outcomes[i].records
    IN  [result |->
            [e \in SeqToSet(elements) |->
                outcomes[CHOOSE i \in 1..Len(elements) : elements[i] = e].amounts],
         records |-> Recs[Len(elements)]]

\* the loop over budgets.items() with the rules loaded
AllocateElements(rules, source_cost_center_id, elements, budgets, items, item_data, period_id, simulate, default_basis) ==
    CollectOutcomes(elements,
        [i \in 1..Len(elements) |->
            AllocateElement(rules, source_cost_center_id, elements[i],
                budgets[elements[i]], items, item_data, period_id, simulate,
                default_basis)])

\* execute_rule_based_allocation: budgets is a dict given by its elements
\* in order and their amounts
execute_rule_based_allocation(ruleTable, source_cost_center_id, elements, budgets, items, item_data, period_id, simulate, default_basis) ==
    AllocateElements(load_allocation_rules(ruleTable, source_cost_center_id),
        source_cost_center_id, elements, budgets, items, item_data, period_id,
        simulate, default_basis)


(***************************************************************************)
(* cost_calculation.py                                                     *)
(*                                                                         *)
(* Master data is the record md:                                           *)
(*   materials, crude_products, products : id -> row (the active rows)     *)
(*   bom_headers, cost_budgets, allocation_rules : tables in scan order    *)
(*   cost_centers : id -> center_type                                      *)
(*   periods : the ids of the FiscalPeriod rows                            *)
(* Ids stand for UUIDs: crude products 1.., cost centers 11.., products    *)
(* 21.., materials 31..; their integer order is the order of str(id).      *)
(* An id of 0 is None.  A BOM quantity, a loss rate, a category rate, a    *)
(* content weight and a lot size are decimals written as a numerator over  *)
(* QtyDen.                                                                 *)
(***************************************************************************)
QtyDen == 8

NoOverrides ==
    [material_prices |-> <<>>, budget_changes |-> <<>>, category_rate_changes |-> <<>>]

\* Mutant: the category rate outranks the individual override
resolve_material_price_category_first(mat_id, mat, material_price_overrides, category_rate_changes) ==
    IF mat.category # "NONE" /\ mat.category \in DOMAIN category_rate_changes
    THEN RoundHalfUp(mat.standard_unit_price * category_rate_changes[mat.category],
                     QtyDen)
    ELSE IF mat_id \in DOMAIN material_price_overrides
         THEN material_price_overrides[mat_id]
         ELSE mat.standard_unit_price

\* _resolve_material_price: individual override > category rate > standard
resolve_material_price(mat_id, mat, material_price_overrides, category_rate_changes) ==
    IF mat_id \in DOMAIN material_price_overrides
    THEN material_price_overrides[mat_id]
    ELSE IF mat.category # "NONE" /\ mat.category \in DOMAIN category_rate_changes
         THEN RoundHalfUp(mat.standard_unit_price * category_rate_changes[mat.category],
                          QtyDen)
         ELSE mat.standard_unit_price

RECURSIVE InsertByDate(_, _)
InsertByDate(sorted, h) ==
    IF sorted = <<>> THEN <<h>>
    ELSE IF Head(sorted).effective_date >= h.effective_date
         THEN <<Head(sorted)>> \o InsertByDate(Tail(sorted), h)
         ELSE <<h>> \o sorted

RECURSIVE SortByDateDesc(_)
SortByDateDesc(hs) ==
    IF hs = <<>> THEN <<>>
    ELSE InsertByDate(SortByDateDesc(SubSeq(hs, 1, Len(hs) - 1)), hs[Len(hs)])

\* Mutant: the active headers come in table order, not by date
load_bom_headers_unordered(md, bom_type) ==
    SelectSeq(md.bom_headers, LAMBDA h : h.bom_type = bom_type /\ h.is_active)

\* Mutant: inactive headers are loaded too
load_bom_headers_any_status(md, bom_type) ==
    SortByDateDesc(SelectSeq(md.bom_headers, LAMBDA h : h.bom_type = bom_type))

\* _load_bom_headers: the active headers of the type, latest effective date
\* first (headers of equal date keep their table order)
load_bom_headers(md, bom_type) ==
    SortByDateDesc(SelectSeq(md.bom_headers,
        LAMBDA h : h.bom_type = bom_type /\ h.is_active))

NoBudget == [cost_center_id |-> 0]

\* _load_budgets: the budget row of the period whose cost center has the
\* type (scalar_one_or_none; the master data holds at most one)
load_budgets(md, period_id, center_type) ==
    LET hits == {i \in 1..Len(md.cost_budgets) :
                    /\ md.cost_budgets[i].period_id = period_id
                    /\ md.cost_budgets[i].cost_center_id \in DOMAIN md.cost_centers
                    /\ md.cost_centers[md.cost_budgets[i].cost_center_id] = center_type}
    IN  IF hits = {} THEN NoBudget ELSE md.cost_budgets[CHOOSE i \in hits : TRUE]

\* the keys, in insertion order, of the dict that keeps the first header of
\* each owner ("if cp_id and cp_id not in cp_bom_map")
RECURSIVE FirstPerOwner(_, _, _)
FirstPerOwner(hs, field, seen) ==
    IF hs = <<>> THEN <<>>
    ELSE LET o == Head(hs)[field]
         IN  IF o # 0 /\ o \notin seen
             THEN <<Head(hs)>> \o FirstPerOwner(Tail(hs), field, seen \cup {o})
             ELSE FirstPerOwner(Tail(hs), field, seen)

\* a budget figure after "budget_changes"
BudgetAfterOverride(budget, field, budget_overrides) ==
    IF budget = NoBudget THEN 0
    ELSE IF budget.cost_center_id \in DOMAIN budget_overrides
            /\ field \in DOMAIN budget_overrides[budget.cost_center_id]
         THEN budget_overrides[budget.cost_center_id][field]
         ELSE budget[field]

\* quantity * (1 + loss_rate), as a numerator over QtyDen * QtyDen
LineQtyWithLoss(line) == line.quantity * (QtyDen + line.loss_rate)

\* sum of a sequence of numbers: "for line in bom.lines: total += ..."
SumLines(amounts) ==
    LET F[i \in 0..Len(amounts)] == IF i = 0 THEN 0 ELSE F[i - 1] + amounts[i]
    IN  F[Len(amounts)]

\* Mutant: the standard quantity counts the crude-product lines too
StandardQuantity_all_lines(bom) ==
    SumLines([n \in 1..Len(bom.lines) |->
        LET l == bom.lines[n]
        IN  IF l.material_id # 0 THEN LineQtyWithLoss(l)
            ELSE l.quantity * QtyDen])

\* the standard quantity of a crude product: its material lines only
StandardQuantity(bom) ==
    SumLines([n \in 1..Len(bom.lines) |->
        LET l == bom.lines[n]
        IN  IF l.material_id # 0 THEN LineQtyWithLoss(l) ELSE 0])

\* (price * quantity * (1 + loss_rate)).quantize(FOUR, ROUND_HALF_UP) of a
\* line whose material is loaded, else nothing
MaterialLineCost(md, l, ov) ==
    IF l.material_id \in DOMAIN md.materials
    THEN RoundHalfUp(
            resolve_material_price(l.material_id, md.materials[l.material_id],
                ov.material_prices, ov.category_rate_changes) * LineQtyWithLoss(l),
            QtyDen * QtyDen)
    ELSE 0

\* "unit_cost = (total / std_qty).quantize(FOUR, ROUND_HALF_UP) if std_qty >
\* 0 else ZERO"; std_qty is a sum of quantity * (1 + loss_rate), over
\* QtyDen * QtyDen
crude_unit_cost(total, std_qty) ==
    IF std_qty > 0 THEN RoundHalfUp(total * QtyDen * QtyDen, std_qty) ELSE 0

\* (unit_cost * quantity).quantize(FOUR, ROUND_HALF_UP) of a line whose
\* crude product is in crude_cost_results, else nothing
CrudeLineCost(l, crude_cost_results) ==
    IF l.crude_product_id \in DOMAIN crude_cost_results
    THEN RoundHalfUp(crude_cost_results[l.crude_product_id].unit_cost * l.quantity,
                     QtyDen)
    ELSE 0


RECURSIVE SortedSeq(_)
\* sorted(S) for a set of ids
SortedSeq(S) ==
    IF S = {} THEN <<>>
    ELSE LET m == CHOOSE x \in S : \A y \in S : x <= y
         IN  <<m>> \o SortedSeq(S \ {m})

\* Mutant: the crude products are costed in id order alone
sorted_cp_ids_by_id_only(md, keys) == SortedSeq(keys)

\* sorted(cp_bom_map.keys(), key=(1 if blend else 0, cid)): non-blend first
sorted_cp_ids(md, keys) ==
    LET blend == {k \in keys : k \in DOMAIN md.crude_products
                               /\ md.crude_products[k].is_blend}
    IN  SortedSeq(keys \ blend) \o SortedSeq(blend)

EmptyMap == [k \in {} |-> 0]

\* Stage 1: crude_cost_results (its keys in insertion order and its rows) and
\* the CostAllocation rows added on the way
Stage1(md, period_id, simulate, ov) ==
    LET cp_boms == FirstPerOwner(load_bom_headers(md, "raw_material_process"),
                                 "crude_product_id", {})
        items == [i \in 1..Len(cp_boms) |-> cp_boms[i].crude_product_id]
        cp_bom_map == [k \in SeqToSet(items) |->
                        cp_boms[CHOOSE i \in 1..Len(items) : items[i] = k]]
        mfg_budget == load_budgets(md, period_id, "manufacturing")
        mfg_labor == BudgetAfterOverride(mfg_budget, "labor_budget", ov.budget_changes)
        mfg_overhead == BudgetAfterOverride(mfg_budget, "overhead_budget", ov.budget_changes)
        cp_std_quantities == [k \in SeqToSet(items) |-> StandardQuantity(cp_bom_map[k])]
        cp_item_data == [k \in SeqToSet(items) |->
                            [raw_material_quantity |-> cp_std_quantities[k]]]
        alloc ==
            IF mfg_budget # NoBudget
            THEN execute_rule_based_allocation(md.allocation_rules,
                    mfg_budget.cost_center_id, <<"labor", "overhead">>,
                    [labor |-> mfg_labor, overhead |-> mfg_overhead],
                    items, cp_item_data, period_id, simulate, "raw_material_quantity")
            ELSE [result |->
                    [labor |-> allocate_by_quantity(mfg_labor, items, cp_std_quantities),
                     overhead |-> allocate_by_quantity(mfg_overhead, items, cp_std_quantities)],
                  records |-> <<>>]
        order == SelectSeq(sorted_cp_ids(md, SeqToSet(items)),
                           LAMBDA k : k \in DOMAIN md.crude_products)
        Results[i \in 0..Len(order)] ==
            IF i = 0 THEN EmptyMap
            ELSE LET cp_id == order[i]
                     bom == cp_bom_map[cp_id]
                     material_cost ==
                        SumLines([n \in 1..Len(bom.lines) |->
                            LET l == bom.lines[n]
                            IN  IF l.material_id # 0 THEN MaterialLineCost(md, l, ov) ELSE 0])
                     prior_process_cost ==
                        SumLines([n \in 1..Len(bom.lines) |->
                            LET l == bom.lines[n]
                            IN  IF l.material_id = 0 /\ l.crude_product_id # 0
                                THEN CrudeLineCost(l, Results[i - 1]) ELSE 0])
                     labor == Get(alloc.result.labor, cp_id)
                     overhead == Get(alloc.result.overhead, cp_id)
                     total == material_cost + labor + overhead + prior_process_cost
                     std_qty == cp_std_quantities[cp_id]
                 IN  Results[i - 1] @@
                     (cp_id :>
                        [crude_product_id |-> cp_id,
                         period_id |-> period_id,
                         material_cost |-> material_cost,
                         labor_cost |-> labor,
                         overhead_cost |-> overhead,
                         prior_process_cost |-> prior_process_cost,
                         total_cost |-> total,
                         unit_cost |-> crude_unit_cost(total, std_qty),
                         standard_quantity |-> std_qty])
    IN  [order |-> order, results |-> Results[Len(order)], records |-> alloc.records]

\* the allocation weight of a product: content_weight_g, else the sum of
\* its BOM line quantities, else 1
ProductWeight(md, p_id, bom) ==
    IF p_id \in DOMAIN md.products /\ md.products[p_id].content_weight_g # 0
    THEN md.products[p_id].content_weight_g
    ELSE LET total_qty == SumLines([n \in 1..Len(bom.lines) |->
                              LET l == bom.lines[n]
                              IN  l.quantity])
         IN  IF total_qty > 0 THEN total_qty ELSE QtyDen

\* "prod.standard_lot_size if prod.standard_lot_size and ... > 0 else D('1')"
LotSize(prod) == IF prod.standard_lot_size > 0 THEN prod.standard_lot_size ELSE QtyDen

\* Mutant: a lot size that is not positive gives a unit cost of zero
product_unit_cost_zero_without_lot(total, prod) ==
    IF prod.standard_lot_size > 0
    THEN RoundHalfUp(total * QtyDen, prod.standard_lot_size)
    ELSE 0

\* "unit_cost = (total / lot_size).quantize(FOUR, ROUND_HALF_UP)"
product_unit_cost(total, prod) == RoundHalfUp(total * QtyDen, LotSize(prod))

\* Mutant: the subset is ignored and every product is costed
filter_product_boms_keeping_all(all_boms, product_ids) == all_boms

\* "if product_ids: prod_bom_map = {k: v ... if k in pid_strs}"; product_ids
\* is the requested subset, {} when none is given
filter_product_boms(all_boms, product_ids) ==
    IF product_ids # {}
    THEN SelectSeq(all_boms, LAMBDA h : h.product_id \in product_ids)
    ELSE all_boms

\* Stage 2: product_cost_results and the CostAllocation rows added on the
\* way; product_ids is the requested subset, {} when none is given
Stage2(md, period_id, product_ids, simulate, ov, crude_cost_results) ==
    LET all_boms == FirstPerOwner(load_bom_headers(md, "product_process"),
                                  "product_id", {})
        prod_boms == filter_product_boms(all_boms, product_ids)
        items == [i \in 1..Len(prod_boms) |-> prod_boms[i].product_id]
        prod_bom_map == [k \in SeqToSet(items) |->
                            prod_boms[CHOOSE i \in 1..Len(items) : items[i] = k]]
        prd_budget == load_budgets(md, period_id, "product")
        prd_labor == BudgetAfterOverride(prd_budget, "labor_budget", ov.budget_changes)
        prd_overhead == BudgetAfterOverride(prd_budget, "overhead_budget", ov.budget_changes)
        prd_outsourcing ==
            BudgetAfterOverride(prd_budget, "outsourcing_budget", ov.budget_changes)
        prod_alloc_quantities ==
            [k \in SeqToSet(items) |-> ProductWeight(md, k, prod_bom_map[k])]
        prod_item_data ==
            [k \in SeqToSet(items) |->
                [weight |-> prod_alloc_quantities[k],
                 raw_material_quantity |-> prod_alloc_quantities[k]]]
        alloc ==
            IF prd_budget # NoBudget
            THEN execute_rule_based_allocation(md.allocation_rules,
                    prd_budget.cost_center_id, <<"labor", "overhead", "outsourcing">>,
                    [labor |-> prd_labor, overhead |-> prd_overhead,
                     outsourcing |-> prd_outsourcing],
                    items, prod_item_data, period_id, simulate, "weight_based")
            ELSE [result |->
                    [labor |-> allocate_by_quantity(prd_labor, items, prod_alloc_quantities),
                     overhead |->
                        allocate_by_quantity(prd_overhead, items, prod_alloc_quantities),
                     outsourcing |->
                        allocate_by_quantity(prd_outsourcing, items, prod_alloc_quantities)],
                  records |-> <<>>]
        order == SelectSeq(items, LAMBDA k : k \in DOMAIN md.products)
        Row(p_id) ==
            LET bom == prod_bom_map[p_id]
                prod == md.products[p_id]
                crude_cost ==
                    SumLines([n \in 1..Len(bom.lines) |->
                        LET l == bom.lines[n]
                        IN  IF l.crude_product_id # 0
                            THEN CrudeLineCost(l, crude_cost_results) ELSE 0])
                packaging_cost ==
                    SumLines([n \in 1..Len(bom.lines) |->
                        LET l == bom.lines[n]
                        IN  IF l.crude_product_id = 0 /\ l.material_id # 0
                            THEN MaterialLineCost(md, l, ov) ELSE 0])
                labor == Get(alloc.result.labor, p_id)
                overhead == Get(alloc.result.overhead, p_id)
                outsourcing == Get(alloc.result.outsourcing, p_id)
                total == crude_cost + packaging_cost + labor + overhead + outsourcing
                lot_size == LotSize(prod)
            IN  [product_id |-> p_id,
                 period_id |-> period_id,
                 crude_product_cost |-> crude_cost,
                 packaging_cost |-> packaging_cost,
                 labor_cost |-> labor,
                 overhead_cost |-> overhead,
                 outsourcing_cost |-> outsourcing,
                 total_cost |-> total,
                 unit_cost |-> product_unit_cost(total, prod),
                 lot_size |-> lot_size]
    IN  [order |-> order,
         results |-> [k \in SeqToSet(order) |-> Row(k)],
         records |-> alloc.records]


(***************************************************************************)
(* Persistence.  A table is the sequence of its rows in insertion order;   *)
(* a row keeps its position for life, which stands for its primary key.    *)
(* The unique constraints of the tables are not modelled: whatever         *)
(* uniqueness holds below is the code's doing.                             *)
(***************************************************************************)

\* a value as a NUMERIC(18, 4) column holds it: rounded to four places;
\* n / d is the value, the result is in ticks
Numeric4(n, d) == RoundHalfUp(n * TicksPerUnit, d)

\* a computed dict as the columns of its table hold it after flush and
\* refresh: the money columns are in ticks already, standard_quantity and
\* lot_size are rounded to the scale of their columns
AsStored(data) ==
    [f \in DOMAIN data |->
        IF f = "standard_quantity" THEN Numeric4(data[f], QtyDen * QtyDen)
        ELSE IF f = "lot_size" THEN Numeric4(data[f], QtyDen)
        ELSE data[f]]

\* the positions of the rows of an item in a period
RowsOf(table, key, item, period_id) ==
    {i \in 1..Len(table) : table[i][key] = item /\ table[i].period_id = period_id}

\* Mutant: the update leaves unit_cost as it was
UpdateRow_keeping_unit_cost(row, data, cols) ==
    [f \in DOMAIN row |->
        IF f \in cols \ {"unit_cost"} /\ f \in DOMAIN data THEN data[f] ELSE row[f]]

\* "for k, v in data.items(): setattr(record, k, v)" over the columns cols
UpdateRow(row, data, cols) ==
    [f \in DOMAIN row |-> IF f \in cols /\ f \in DOMAIN data THEN data[f] ELSE row[f]]

\* Mutant: the computed row is inserted without looking for an existing one
Upsert_insert_only(table, key, data) ==
    [rows |-> Append(table, AsStored(data) @@ [notes |-> 0]), failed |-> FALSE]

\* select ... scalar_one_or_none(), then update in place or insert; more
\* than one existing row raises MultipleResultsFound
Upsert(table, key, data) ==
    LET hits == RowsOf(table, key, data[key], data.period_id)
    IN  IF hits = {}
        THEN [rows |-> Append(table, AsStored(data) @@ [notes |-> 0]),
              failed |-> FALSE]
        ELSE IF Cardinality(hits) = 1
             THEN LET i == CHOOSE j \in hits : TRUE
                  IN  [rows |-> [table EXCEPT
                                    ![i] = UpdateRow(table[i], AsStored(data),
                                            DOMAIN data \ {key, "period_id"})],
                       failed |-> FALSE]
             ELSE [rows |-> table, failed |-> TRUE]

\* the save loop of calculate_standard_costs over one result dict
UpsertAll(table, key, order, results) ==
    LET F[i \in 0..Len(order)] ==
            IF i = 0 THEN [rows |-> table, failed |-> FALSE]
            ELSE IF F[i - 1].failed THEN F[i - 1]
                 ELSE Upsert(F[i - 1].rows, key, results[order[i]])
    IN  F[Len(order)]

\* the row a saved item is read back as (db.refresh)
SavedRow(table, key, item, period_id) ==
    table[CHOOSE i \in RowsOf(table, key, item, period_id) : TRUE]

CrudeCostColumns ==
    {"material_cost", "labor_cost", "overhead_cost", "prior_process_cost",
     "total_cost", "unit_cost", "standard_quantity", "notes"}

ProductCostColumns ==
    {"crude_product_cost", "packaging_cost", "labor_cost", "overhead_cost",
     "outsourcing_cost", "total_cost", "unit_cost", "lot_size", "notes"}

\* Mutant: a source row is inserted whether or not the target has one
CopyRows_without_lookup(table, key, source_period_id, target_period_id, overwrite, cols) ==
    LET src == SelectSeq(table, LAMBDA r : r.period_id = source_period_id)
        F[i \in 0..Len(src)] ==
            IF i = 0 THEN table
            ELSE Append(F[i - 1], [src[i] EXCEPT !.period_id = target_period_id])
    IN  [rows |-> F[Len(src)], copied |-> Len(src), skipped |-> 0, updated |-> 0,
         failed |-> FALSE]

\* Mutant: a target row that exists is overwritten whatever overwrite says
CopyRows_overwriting_always(table, key, source_period_id, target_period_id, overwrite, cols) ==
    LET src == SelectSeq(table, LAMBDA r : r.period_id = source_period_id)
        F[i \in 0..Len(src)] ==
            IF i = 0
            THEN [rows |-> table, copied |-> 0, skipped |-> 0, updated |-> 0,
                  failed |-> FALSE]
            ELSE LET acc == F[i - 1]
                     hits == RowsOf(acc.rows, key, src[i][key], target_period_id)
                 IN  IF hits # {}
                     THEN LET j == CHOOSE h \in hits : TRUE
                          IN  [acc EXCEPT
                                 !.rows[j] = UpdateRow(acc.rows[j], src[i], cols),
                                 !.updated = @ + 1]
                     ELSE [acc EXCEPT
                             !.rows = Append(@, [src[i] EXCEPT
                                                    !.period_id = target_period_id]),
                             !.copied = @ + 1]
    IN  F[Len(src)]

\* one of the two copy loops of copy_standard_costs
CopyRows(table, key, source_period_id, target_period_id, overwrite, cols) ==
    LET src == SelectSeq(table, LAMBDA r : r.period_id = source_period_id)
        F[i \in 0..Len(src)] ==
            IF i = 0
            THEN [rows |-> table, copied |-> 0, skipped |-> 0, updated |-> 0,
                  failed |-> FALSE]
            ELSE LET acc == F[i - 1]
                     hits == RowsOf(acc.rows, key, src[i][key], target_period_id)
                 IN  IF acc.failed THEN acc
                     ELSE IF Cardinality(hits) > 1
                     THEN [acc EXCEPT !.failed = TRUE]
                     ELSE IF hits # {}
                     THEN IF ~overwrite
                          THEN [acc EXCEPT !.skipped = @ + 1]
                          ELSE LET j == CHOOSE h \in hits : TRUE
                               IN  [acc EXCEPT
                                      !.rows[j] = UpdateRow(acc.rows[j], src[i], cols),
                                      !.updated = @ + 1]
                     ELSE [acc EXCEPT
                             !.rows = Append(@, [src[i] EXCEPT
                                                    !.period_id = target_period_id]),
                             !.copied = @ + 1]
    IN  F[Len(src)]

\* Mutant: only the source period is looked up
CopyArgumentsValid_source_only(md, source_period_id, target_period_id) ==
    /\ source_period_id # target_period_id
    /\ source_period_id \in md.periods

\* the two checks that open copy_standard_costs; each failure is a ValueError
CopyArgumentsValid(md, source_period_id, target_period_id) ==
    /\ source_period_id # target_period_id
    /\ source_period_id \in md.periods
    /\ target_period_id \in md.periods


(***************************************************************************)
(* State.                                                                  *)
(*   md                            master data, fixed after construction   *)
(*   standard_costs                table StandardCost                      *)
(*   crude_product_standard_costs  table CrudeProductStandardCost          *)
(*   cost_allocations              table CostAllocation                    *)
(*   last                          the last call: its arguments and what   *)
(*                                 it returned or raised                   *)
(*   aTotal, aItems, aQty, aKind, aRes   one call of a pure allocation     *)
(*                                 function: arguments, which, result      *)
(*   actual_costs                  table ActualCost                        *)
(*   variance_records              table VarianceRecord, a bag of rows:    *)
(*                                 a row's id and timestamps are left out  *)
(*   sessions                      the requests to analyze variances that  *)
(*                                 run statement by statement: where each  *)
(*                                 is and what it has read                 *)
(*   raced                         history: a request has run its DELETE   *)
(*                                 between the DELETE and the flush of     *)
(*                                 another                                 *)
(*   reconciliation_results        table ReconciliationResult, in          *)
(*                                 insertion order                         *)
(*   products                      table Product, in insertion order       *)
(***************************************************************************)
VARIABLES md, standard_costs, crude_product_standard_costs, cost_allocations, last,
          aTotal, aItems, aQty, aKind, aRes,
          actual_costs, variance_records, sessions, raced,
          reconciliation_results, products

storeVars == <<md, standard_costs, crude_product_standard_costs, cost_allocations, last>>
allocVars == <<aTotal, aItems, aQty, aKind, aRes>>
varianceVars == <<actual_costs, variance_records, sessions, raced>>
auditVars == <<reconciliation_results>>
masterVars == <<products>>
vars == <<storeVars, allocVars, varianceVars, auditVars, masterVars>>

tables == <<standard_costs, crude_product_standard_costs, cost_allocations>>

EmptyMd ==
    [materials |-> <<>>, crude_products |-> <<>>, products |-> <<>>,
     bom_headers |-> <<>>, cost_budgets |-> <<>>, allocation_rules |-> <<>>,
     cost_centers |-> <<>>, periods |-> {}]

StoreIdle ==
    /\ md = EmptyMd
    /\ standard_costs = <<>>
    /\ crude_product_standard_costs = <<>>
    /\ cost_allocations = <<>>
    /\ last = [op |-> "none"]

AllocIdle ==
    /\ aTotal = 0
    /\ aItems = <<>>
    /\ aQty = <<>>
    /\ aKind = "idle"
    /\ aRes = <<>>

\* the requests that may run at once
Sessions == {1, 2}

IdleSession == [pc |-> "idle"]

VarianceIdle ==
    /\ actual_costs = <<>>
    /\ variance_records = EmptyBag
    /\ sessions = [p \in Sessions |-> IdleSession]
    /\ raced = FALSE

AuditIdle == reconciliation_results = <<>>

MasterIdle == products = <<>>

(***************************************************************************)
(* calculate_standard_costs and copy_standard_costs as operations on the   *)
(* store.                                                                  *)
(***************************************************************************)

\* what calculate_standard_costs computes before it saves: Stage 1, then
\* Stage 2 over the results of Stage 1
Computed(m, period_id, product_ids, simulate, ov) ==
    TheOne(UNION
        { { [crude |-> s1, product |-> s2, records |-> s1.records \o s2.records] :
                s2 \in {Stage2(m, period_id, product_ids, simulate, ov, s1.results)} } :
            s1 \in {Stage1(m, period_id, simulate, ov)} })

(***************************************************************************)
(* Master data of the store specification: two crude products (1 made of   *)
(* material 31, 2 a blend of 1 and material 31), two products, budgets of  *)
(* the manufacturing (11) and product (12) departments, periods 1 and 2.   *)
(***************************************************************************)
Line(material_id, crude_product_id, quantity, loss_rate) ==
    [material_id |-> material_id, crude_product_id |-> crude_product_id,
     quantity |-> quantity, loss_rate |-> loss_rate]

Header(product_id, crude_product_id, bom_type, effective_date, is_active, lines) ==
    [product_id |-> product_id, crude_product_id |-> crude_product_id,
     bom_type |-> bom_type, effective_date |-> effective_date,
     is_active |-> is_active, lines |-> lines]

Rule(id, source_cost_center_id, cost_element, basis, priority, is_active, targets) ==
    [id |-> id, source_cost_center_id |-> source_cost_center_id,
     cost_element |-> cost_element, basis |-> basis, priority |-> priority,
     is_active |-> is_active, targets |-> targets]

Budget(cost_center_id, period_id, labor, overhead, outsourcing) ==
    [cost_center_id |-> cost_center_id, period_id |-> period_id,
     labor_budget |-> labor, overhead_budget |-> overhead,
     outsourcing_budget |-> outsourcing]

Target(target_cost_center_id, ratio) ==
    [target_cost_center_id |-> target_cost_center_id, ratio |-> ratio]

\* the rule sets a run may be given: none; exact rules in the manner of
\* seed.py; a manual wildcard rule with targets that outranks an exact labor
\* rule by priority, and an inactive rule
RuleSets ==
    { <<>>,
      << Rule(41, 11, "labor", "production_hours", 10, TRUE, <<>>),
         Rule(43, 12, "outsourcing", "weight_based", 0, TRUE, <<>>) >>,
      << Rule(44, 11, "NULL", "manual", 10, TRUE,
              <<Target(11, 6000), Target(13, 4000)>>),
         Rule(45, 11, "labor", "raw_material_quantity", 5, TRUE, <<>>),
         Rule(47, 12, "labor", "weight_based", 1, FALSE, <<>>) >> }

StoreMd(rules) ==
    [materials |->
        (31 :> [standard_unit_price |-> 25000, category |-> "fruit"]) @@
        (32 :> [standard_unit_price |-> 1234, category |-> "NONE"]),
     crude_products |-> (1 :> [is_blend |-> FALSE]) @@ (2 :> [is_blend |-> TRUE]),
     products |->
        (21 :> [content_weight_g |-> 0, standard_lot_size |-> 6]) @@
        (22 :> [content_weight_g |-> 5, standard_lot_size |-> 0]),
     bom_headers |->
        << Header(0, 1, "raw_material_process", 1, TRUE, <<Line(31, 0, 9, 0)>>),
           Header(0, 1, "raw_material_process", 2, TRUE, <<Line(31, 0, 3, 1)>>),
           Header(0, 2, "raw_material_process", 2, TRUE,
                  <<Line(0, 1, 12, 0), Line(31, 0, 1, 0)>>),
           Header(21, 0, "product_process", 2, TRUE,
                  <<Line(0, 2, 1, 0), Line(32, 0, 4, 1)>>),
           Header(22, 0, "product_process", 2, TRUE, <<Line(0, 1, 3, 0)>>),
           Header(22, 0, "product_process", 3, FALSE, <<Line(32, 0, 7, 0)>>) >>,
     cost_budgets |->
        << Budget(11, 1, 100001, 50000, 0),
           Budget(12, 1, 70001, 20000, 30000),
           Budget(11, 2, 80000, 0, 0) >>,
     allocation_rules |-> rules,
     cost_centers |-> (11 :> "manufacturing") @@ (12 :> "product") @@ (13 :> "indirect"),
     periods |-> {1, 2}]

\* the overrides a calculation may be given
OverrideChoices ==
    { NoOverrides,
      [material_prices |-> (32 :> 1500),
       budget_changes |-> (11 :> [labor_budget |-> 90001]),
       category_rate_changes |-> [fruit |-> 3]] }

\* the overrides a simulation request may carry: those, and an individual
\* price for material 31 together with a rate for its category
SimulationOverrides ==
    OverrideChoices \cup
    { [material_prices |-> (31 :> 30000),
       budget_changes |-> <<>>,
       category_rate_changes |-> [fruit |-> 3]] }

\* the period ids a request may name: the periods and one that does not exist
RequestPeriods == {1, 2, 3}

ProductSubsets == {{}, {21}}

\* calculate_standard_costs(db, period_id, product_ids, simulate, overrides)
Calculate(period_id, product_ids, simulate, ov) ==
    \E c \in {Computed(md, period_id, product_ids, simulate, ov)} :
    \E cp \in {IF simulate
               THEN [rows |-> crude_product_standard_costs, failed |-> FALSE]
               ELSE UpsertAll(crude_product_standard_costs, "crude_product_id",
                              c.crude.order, c.crude.results)} :
    \E pr \in {IF simulate
               THEN [rows |-> standard_costs, failed |-> FALSE]
               ELSE UpsertAll(standard_costs, "product_id",
                              c.product.order, c.product.results)} :
    \E call \in {[op |-> "calculate", period_id |-> period_id,
                  product_ids |-> product_ids, simulate |-> simulate,
                  overrides |-> ov]} :
        /\ Len(cost_allocations) + Len(c.records) <= MaxAllocationRows
        /\ IF cp.failed \/ pr.failed
           THEN /\ UNCHANGED tables
                /\ last' = call @@ [error |-> "MultipleResultsFound"]
           ELSE /\ crude_product_standard_costs' = cp.rows
                /\ standard_costs' = pr.rows
                /\ cost_allocations' = cost_allocations \o c.records
                /\ last' = call @@
                     [error |-> "",
                      crude_products_calculated |-> Len(c.crude.order),
                      products_calculated |-> Len(c.product.order),
                      crude_product_costs |->
                        [i \in 1..Len(c.crude.order) |->
                            IF simulate THEN c.crude.results[c.crude.order[i]]
                            ELSE SavedRow(cp.rows, "crude_product_id",
                                          c.crude.order[i], period_id)],
                      product_costs |->
                        [i \in 1..Len(c.product.order) |->
                            IF simulate THEN c.product.results[c.product.order[i]]
                            ELSE SavedRow(pr.rows, "product_id",
                                          c.product.order[i], period_id)]]
        /\ UNCHANGED md

\* copy_standard_costs(db, source_period_id, target_period_id, overwrite);
\* the route turns a ValueError into HTTP 400
Copy(source_period_id, target_period_id, overwrite) ==
    \E call \in {[op |-> "copy", source_period_id |-> source_period_id,
                  target_period_id |-> target_period_id, overwrite |-> overwrite]} :
    \E cp \in {CopyRows(crude_product_standard_costs, "crude_product_id",
                        source_period_id, target_period_id, overwrite,
                        CrudeCostColumns)} :
    \E pr \in {CopyRows(standard_costs, "product_id",
                        source_period_id, target_period_id, overwrite,
                        ProductCostColumns)} :
        /\ IF ~CopyArgumentsValid(md, source_period_id, target_period_id)
           THEN /\ UNCHANGED tables
                /\ last' = call @@ [error |-> "ValueError"]
           ELSE IF cp.failed \/ pr.failed
           THEN /\ UNCHANGED tables
                /\ last' = call @@ [error |-> "MultipleResultsFound"]
           ELSE /\ crude_product_standard_costs' = cp.rows
                /\ standard_costs' = pr.rows
                /\ UNCHANGED cost_allocations
                /\ last' = call @@
                     [error |-> "",
                      crude_product_costs_copied |-> cp.copied,
                      crude_product_costs_skipped |-> cp.skipped,
                      crude_product_costs_updated |-> cp.updated,
                      product_costs_copied |-> pr.copied,
                      product_costs_skipped |-> pr.skipped,
                      product_costs_updated |-> pr.updated]
        /\ UNCHANGED md

Init ==
    /\ AllocIdle
    /\ VarianceIdle
    /\ AuditIdle
    /\ MasterIdle
    /\ md \in {StoreMd(r) : r \in RuleSets}
    /\ standard_costs = <<>>
    /\ crude_product_standard_costs = <<>>
    /\ cost_allocations = <<>>
    /\ last = [op |-> "none"]

\* POST /calculate: the request carries no overrides
CalculateStandardCosts ==
    /\ \E period_id \in md.periods, product_ids \in ProductSubsets,
          simulate \in BOOLEAN :
            Calculate(period_id, product_ids, simulate, NoOverrides)
    /\ UNCHANGED <<allocVars, varianceVars, auditVars, masterVars>>

\* POST /simulate: the whole period, with overrides, never saved
SimulateStandardCosts ==
    /\ \E period_id \in md.periods, ov \in SimulationOverrides :
            Calculate(period_id, {}, TRUE, ov)
    /\ UNCHANGED <<allocVars, varianceVars, auditVars, masterVars>>

\* POST /copy
CopyStandardCosts ==
    /\ \E source_period_id \in RequestPeriods, target_period_id \in RequestPeriods,
          overwrite \in BOOLEAN :
            Copy(source_period_id, target_period_id, overwrite)
    /\ UNCHANGED <<allocVars, varianceVars, auditVars, masterVars>>

Next == CalculateStandardCosts \/ SimulateStandardCosts \/ CopyStandardCosts

Spec == Init /\ [][Next]_vars

(***************************************************************************)
(* Harness of the pure allocation functions: the arguments are drawn in    *)
(* the initial state and one call is made.                                 *)
(***************************************************************************)
AllocItems == 1..MaxItems

AllocInit ==
    /\ StoreIdle
    /\ VarianceIdle
    /\ AuditIdle
    /\ MasterIdle
    /\ aTotal \in (0 - MaxTotal)..MaxTotal
    /\ aItems \in DistinctSeqs(AllocItems, 1, MaxItems)
    /\ aQty \in [AllocItems -> 0..MaxQty]
    /\ aKind = "none"
    /\ aRes = [k \in {} |-> 0]

CallAllocateByQuantity ==
    /\ aKind = "none"
    /\ IF allocate_by_quantity_raises(aTotal, aItems, aQty)
       THEN aKind' = "quantity_raised" /\ aRes' = aRes
       ELSE aKind' = "quantity" /\ aRes' = allocate_by_quantity(aTotal, aItems, aQty)
    /\ UNCHANGED <<aTotal, aItems, aQty, storeVars, varianceVars, auditVars, masterVars>>

CallAllocateByRatio ==
    /\ aKind = "none"
    /\ IF allocate_by_ratio_raises(aTotal, aItems, aQty)
       THEN aKind' = "ratio_raised" /\ aRes' = aRes
       ELSE aKind' = "ratio" /\ aRes' = allocate_by_ratio(aTotal, aItems, aQty)
    /\ UNCHANGED <<aTotal, aItems, aQty, storeVars, varianceVars, auditVars, masterVars>>

AllocNext == CallAllocateByQuantity \/ CallAllocateByRatio

SpecAlloc == AllocInit /\ [][AllocNext]_vars

AllocDone == aKind \in {"quantity", "ratio"}
AllocQtySum == SumOver(aQty, aItems, Len(aItems))
AllocResSum == SumOver(aRes, aItems, Len(aItems))

\* C1 (as stated): the amounts returned by allocate_by_quantity and by
\* allocate_by_ratio sum exactly to the total budget for every map of
\* quantities or ratios, all-zero maps included.
C1_SumsToTotalAlways == AllocDone => AllocResSum = aTotal

\* C1 (amended): the returned amounts sum exactly to the total budget
\* whenever the quantities (ratios) do not sum to zero; when they sum to
\* zero every item receives zero, so the amounts sum to zero.
C1_SumsToTotal ==
    AllocDone =>
        /\ AllocQtySum # 0 => AllocResSum = aTotal
        /\ AllocQtySum = 0 => AllocResSum = 0

\* a call with some zero and some non-zero quantities, an inexact share and
\* a non-zero budget
C1_Witness ==
    /\ AllocDone
    /\ Len(aItems) = 3
    /\ aTotal = 5
    /\ aQty[aItems[1]] = 1 /\ aQty[aItems[2]] = 0 /\ aQty[aItems[3]] = 2
    /\ aRes[aItems[1]] = 2 /\ aRes[aItems[3]] = 3

(***************************************************************************)
(* The service called directly: calculate_standard_costs takes overrides   *)
(* in both modes.                                                          *)
(***************************************************************************)
CallCalculate ==
    /\ \E period_id \in md.periods, product_ids \in ProductSubsets,
          simulate \in BOOLEAN, ov \in OverrideChoices :
            Calculate(period_id, product_ids, simulate, ov)
    /\ UNCHANGED <<allocVars, varianceVars, auditVars, masterVars>>

ServiceNext == CallCalculate

SpecService == Init /\ [][ServiceNext]_vars

(***************************************************************************)
(* Properties of the store.                                                *)
(***************************************************************************)
SourceCount(table, period_id) ==
    Len(SelectSeq(table, LAMBDA r : r.period_id = period_id))

\* C2: after any sequence of calculations and copies there is at most one
\* StandardCost row per (product, period) and at most one
\* CrudeProductStandardCost row per (crude product, period).
C2_OneRowPerItemAndPeriod ==
    /\ \A i, j \in 1..Len(standard_costs) :
            (/\ standard_costs[i].product_id = standard_costs[j].product_id
             /\ standard_costs[i].period_id = standard_costs[j].period_id) => i = j
    /\ \A i, j \in 1..Len(crude_product_standard_costs) :
            (/\ crude_product_standard_costs[i].crude_product_id
                    = crude_product_standard_costs[j].crude_product_id
             /\ crude_product_standard_costs[i].period_id
                    = crude_product_standard_costs[j].period_id) => i = j

\* a saving calculation of a product subset over rows that calculations and
\* copies have left in both periods
C2_Witness ==
    /\ last.op = "calculate" /\ ~last.simulate /\ last.error = ""
    /\ last.product_ids = {21}
    /\ Len(standard_costs) = 4
    /\ Len(crude_product_standard_costs) = 4

\* two saving calculations in a row with the same arguments
Recalculated ==
    /\ last.op = "calculate" /\ ~last.simulate /\ last.error = ""
    /\ last'.op = "calculate" /\ ~last'.simulate /\ last'.error = ""
    /\ last'.period_id = last.period_id
    /\ last'.product_ids = last.product_ids
    /\ last'.overrides = last.overrides

\* C3 (as stated): a saving calculation repeated with the same arguments
\* leaves the whole persisted state (StandardCost, CrudeProductStandardCost
\* and CostAllocation rows) as the first one left it.
C3_RecalculationIdempotent ==
    [][Recalculated => UNCHANGED tables]_vars

\* C3 (amended): a saving calculation repeated with the same arguments
\* leaves the StandardCost and CrudeProductStandardCost rows as the first
\* one left them and returns the same rows, and appends to CostAllocation
\* once more the audit rows the first one appended.
C3_RecalculationKeepsCosts ==
    [][Recalculated =>
        /\ UNCHANGED <<standard_costs, crude_product_standard_costs>>
        /\ last'.crude_product_costs = last.crude_product_costs
        /\ last'.product_costs = last.product_costs
        /\ \E k \in 0..Len(cost_allocations) :
                cost_allocations' =
                    cost_allocations \o
                    SubSeq(cost_allocations, Len(cost_allocations) - k + 1,
                           Len(cost_allocations))]_vars

\* period 2 calculated and saved twice under a rule that matches: the two
\* audit rows of the first run are there twice
C3_Witness ==
    /\ last.op = "calculate" /\ ~last.simulate /\ last.error = ""
    /\ last.period_id = 2
    /\ Len(cost_allocations) = 4
    /\ SubSeq(cost_allocations, 1, 2) = SubSeq(cost_allocations, 3, 4)
    /\ Len(crude_product_standard_costs) = 2

\* C4: a calculation with simulate = true writes nothing: the StandardCost,
\* CrudeProductStandardCost and CostAllocation rows are the same before and
\* after the call, whatever the overrides and the allocation rules.
C4_SimulationWritesNothing ==
    [][(last'.op = "calculate" /\ last'.simulate) => UNCHANGED tables]_vars

\* a simulation with overrides under rules that match, over a store that
\* holds rows
C4_Witness ==
    /\ last.op = "calculate" /\ last.simulate /\ last.error = ""
    /\ last.overrides # NoOverrides
    /\ md.allocation_rules # <<>>
    /\ last.products_calculated = 2
    /\ Len(standard_costs) > 0
    /\ Len(cost_allocations) > 0

\* a simulation followed by a saving calculation with the same arguments
SimulatedThenSaved ==
    /\ last.op = "calculate" /\ last.simulate /\ last.error = ""
    /\ last'.op = "calculate" /\ ~last'.simulate /\ last'.error = ""
    /\ last'.period_id = last.period_id
    /\ last'.product_ids = last.product_ids
    /\ last'.overrides = last.overrides

CrudeFigures == CrudeCostColumns \ {"notes"}
ProductFigures == ProductCostColumns \ {"notes"}

\* the row holds the figures of the dict, each as its column holds it
HoldsAsStored(row, data, figures) ==
    \A f \in figures : row[f] = AsStored(data)[f]

\* the row holds the figures of the dict as exactly the same numbers
HoldsExactly(row, data, figures) ==
    \A f \in figures :
        IF f = "standard_quantity"
        THEN row[f] * QtyDen * QtyDen = data[f] * TicksPerUnit
        ELSE IF f = "lot_size"
        THEN row[f] * QtyDen = data[f] * TicksPerUnit
        ELSE row[f] = data[f]

\* C5 (as stated): a simulation returns for every item exactly the figures
\* (every cost element, total_cost, unit_cost, quantity) that the saving
\* calculation with the same arguments persists.
C5_SimulationEqualsSavedExactly ==
    [][SimulatedThenSaved =>
        /\ \A i \in DOMAIN last.crude_product_costs :
             \E j \in RowsOf(crude_product_standard_costs', "crude_product_id",
                             last.crude_product_costs[i].crude_product_id,
                             last.period_id) :
                HoldsExactly(crude_product_standard_costs'[j],
                             last.crude_product_costs[i], CrudeFigures)
        /\ \A i \in DOMAIN last.product_costs :
             \E j \in RowsOf(standard_costs', "product_id",
                             last.product_costs[i].product_id, last.period_id) :
                HoldsExactly(standard_costs'[j], last.product_costs[i],
                             ProductFigures)]_vars

\* C5 (amended): a simulation returns for the same items the figures that
\* the saving calculation with the same arguments persists: every cost
\* element, total_cost and unit_cost exactly, standard_quantity and lot_size
\* as rounded half-up to the four decimal places of their columns.
C5_SimulationEqualsSaved ==
    [][SimulatedThenSaved =>
        /\ last'.crude_products_calculated = last.crude_products_calculated
        /\ last'.products_calculated = last.products_calculated
        /\ \A i \in DOMAIN last.crude_product_costs :
             \E j \in RowsOf(crude_product_standard_costs', "crude_product_id",
                             last.crude_product_costs[i].crude_product_id,
                             last.period_id) :
                HoldsAsStored(crude_product_standard_costs'[j],
                              last.crude_product_costs[i], CrudeFigures)
        /\ \A i \in DOMAIN last.product_costs :
             \E j \in RowsOf(standard_costs', "product_id",
                             last.product_costs[i].product_id, last.period_id) :
                HoldsAsStored(standard_costs'[j], last.product_costs[i],
                              ProductFigures)]_vars

\* a saving calculation with overrides over rows an earlier calculation
\* without overrides had saved: the rows hold the figures under overrides
C5_Witness ==
    /\ last.op = "calculate" /\ ~last.simulate /\ last.error = ""
    /\ last.overrides # NoOverrides
    /\ last.product_ids = {}
    /\ Len(standard_costs) = 2
    /\ Len(crude_product_standard_costs) = 2
    /\ \A i \in 1..2 :
          crude_product_standard_costs[i] =
            AsStored(Computed(md, 1, {}, TRUE, last.overrides).crude.results[
                        crude_product_standard_costs[i].crude_product_id])
            @@ [notes |-> 0]
    /\ \E i \in 1..2 :
          crude_product_standard_costs[i] #
            AsStored(Computed(md, 1, {}, TRUE, NoOverrides).crude.results[
                        crude_product_standard_costs[i].crude_product_id])
            @@ [notes |-> 0]

\* two successful copies in a row between the same periods, the first one
\* without overwrite
CopiedAgain ==
    /\ last.op = "copy" /\ last.error = "" /\ ~last.overwrite
    /\ last'.op = "copy" /\ last'.error = ""
    /\ last'.source_period_id = last.source_period_id
    /\ last'.target_period_id = last.target_period_id

\* a successful copy without overwrite into a period that holds no row
CopiedIntoEmpty ==
    /\ last'.op = "copy" /\ last'.error = "" /\ ~last'.overwrite
    /\ SourceCount(standard_costs, last'.target_period_id) = 0
    /\ SourceCount(crude_product_standard_costs, last'.target_period_id) = 0

CopyCounts(copied, skipped, updated) ==
    LET crude == SourceCount(crude_product_standard_costs, last'.source_period_id)
        product == SourceCount(standard_costs, last'.source_period_id)
    IN  /\ last'.crude_product_costs_copied = crude * copied
        /\ last'.crude_product_costs_skipped = crude * skipped
        /\ last'.crude_product_costs_updated = crude * updated
        /\ last'.product_costs_copied = product * copied
        /\ last'.product_costs_skipped = product * skipped
        /\ last'.product_costs_updated = product * updated

\* C8: a copy without overwrite into an empty target reports every source
\* row as copied; repeated at once without overwrite it reports every source
\* row as skipped and leaves the store unchanged; repeated at once with
\* overwrite it reports every source row as updated.
C8_CopyTwiceCounts ==
    [][/\ CopiedIntoEmpty => CopyCounts(1, 0, 0)
       /\ (CopiedAgain /\ ~last'.overwrite) =>
                (CopyCounts(0, 1, 0) /\ UNCHANGED tables)
       /\ (CopiedAgain /\ last'.overwrite) => CopyCounts(0, 0, 1)]_vars

\* the second copy of period 1 into period 2: two rows of each table skipped
C8_Witness ==
    /\ last.op = "copy" /\ last.error = "" /\ ~last.overwrite
    /\ last.source_period_id = 1 /\ last.target_period_id = 2
    /\ last.crude_product_costs_skipped = 2 /\ last.product_costs_skipped = 2
    /\ last.crude_product_costs_copied = 0 /\ last.product_costs_copied = 0
    /\ Len(standard_costs) = 4 /\ Len(crude_product_standard_costs) = 4
    /\ cost_allocations = <<>>

\* C9: a copy whose source and target are the same period, or one of whose
\* periods does not exist, fails with a ValueError and inserts or modifies
\* no StandardCost or CrudeProductStandardCost row.
C9_InvalidCopyRejected ==
    [][(/\ last'.op = "copy"
        /\ \/ last'.source_period_id = last'.target_period_id
           \/ last'.source_period_id \notin md.periods
           \/ last'.target_period_id \notin md.periods) =>
            /\ last'.error = "ValueError"
            /\ UNCHANGED <<standard_costs, crude_product_standard_costs>>]_vars

\* a copy of a period that holds rows into a period that does not exist
C9_Witness ==
    /\ last.op = "copy" /\ last.error = "ValueError"
    /\ last.target_period_id = 3
    /\ SourceCount(standard_costs, last.source_period_id) > 0
    /\ SourceCount(crude_product_standard_costs, last.source_period_id) > 0

(***************************************************************************)
(* Blends.  Master data with three crude products whose flags, BOMs and    *)
(* activity vary: crude product 1 is made of one unit of material 33 at    *)
(* 10.0000; 2 and 3 are made of material, of another crude product, or of  *)
(* both.  One product is made of crude product 2.                          *)
(***************************************************************************)
CrudeBom(crude_product_id, lines) ==
    Header(0, crude_product_id, "raw_material_process", 1, TRUE, lines)

\* the BOMs crude product 2 may have, and those crude product 3 may have
\* (<<>>: it has none)
BomsOfTwo ==
    { <<CrudeBom(2, <<Line(0, 1, 6 * QtyDen, 0)>>)>>,
      <<CrudeBom(2, <<Line(0, 3, QtyDen, 0), Line(33, 0, 4, 0)>>)>>,
      <<CrudeBom(2, <<Line(33, 0, QtyDen, 1)>>)>> }

BomsOfThree ==
    { <<>>,
      <<CrudeBom(3, <<Line(33, 0, 2 * QtyDen, 0)>>)>>,
      <<CrudeBom(3, <<Line(0, 2, QtyDen, 0), Line(33, 0, QtyDen, 0)>>)>>,
      <<CrudeBom(3, <<Line(0, 1, QtyDen, 0)>>)>> }

BlendBudgets == { <<>>, <<Budget(11, 1, 30000, 0, 0)>> }

BlendMd(is_blend, active, two, three, budgets) ==
    [materials |-> (33 :> [standard_unit_price |-> 10 * TicksPerUnit, category |-> "NONE"]),
     crude_products |-> [c \in active |-> [is_blend |-> is_blend[c]]],
     products |-> (21 :> [content_weight_g |-> 0, standard_lot_size |-> QtyDen]),
     bom_headers |->
        <<CrudeBom(1, <<Line(33, 0, QtyDen, 0)>>)>> \o two \o three \o
        <<Header(21, 0, "product_process", 1, TRUE, <<Line(0, 2, QtyDen, 0)>>)>>,
     cost_budgets |-> budgets,
     allocation_rules |-> <<>>,
     cost_centers |-> (11 :> "manufacturing") @@ (12 :> "product"),
     periods |-> {1}]

BlendInit ==
    /\ AllocIdle
    /\ VarianceIdle
    /\ AuditIdle
    /\ MasterIdle
    /\ md \in {BlendMd(f, a, two, three, b) :
                    f \in [1..3 -> BOOLEAN], a \in {{1, 2, 3}, {1, 2}},
                    two \in BomsOfTwo, three \in BomsOfThree, b \in BlendBudgets}
    /\ standard_costs = <<>>
    /\ crude_product_standard_costs = <<>>
    /\ cost_allocations = <<>>
    /\ last = [op |-> "none"]

BlendNext == CalculateStandardCosts

SpecBlend == BlendInit /\ [][BlendNext]_vars

\* the active Stage-1 BOM headers of a crude product
ActiveCrudeBoms(c) ==
    {i \in 1..Len(md.bom_headers) :
        /\ md.bom_headers[i].bom_type = "raw_material_process"
        /\ md.bom_headers[i].is_active
        /\ md.bom_headers[i].crude_product_id = c}

\* the lines of the one BOM of a crude product that reference a crude product
CrudeLinesOf(c) ==
    LET bom == md.bom_headers[CHOOSE i \in ActiveCrudeBoms(c) : TRUE]
    IN  SelectSeq(bom.lines, LAMBDA l : l.material_id = 0 /\ l.crude_product_id # 0)

\* the lines of the one BOM of a crude product
AllLinesOf(c) == md.bom_headers[CHOOSE i \in ActiveCrudeBoms(c) : TRUE].lines

Calculated == last.op = "calculate" /\ last.error = ""

\* the positions before i at which crude product r was costed
CostedBefore(r, i) ==
    {j \in 1..(i - 1) : last.crude_product_costs[j].crude_product_id = r}

\* unit cost of r times the quantity of the line, quantized
LineShare(r, i, l) ==
    RoundHalfUp(last.crude_product_costs[CHOOSE j \in CostedBefore(r, i) : TRUE].unit_cost
                    * l.quantity, QtyDen)

\* C6: a crude product whose BOM is a single line referencing an already
\* costed crude product A with quantity q has a prior_process_cost of A's
\* unit cost times q, and its unit cost reflects that amount: it is not
\* zero when the prior process cost is not.
C6_BlendUnitCostReflectsPrior ==
    Calculated =>
        \A i \in DOMAIN last.crude_product_costs :
            LET row == last.crude_product_costs[i]
                lines == AllLinesOf(row.crude_product_id)
            IN  (/\ Len(lines) = 1
                 /\ lines[1].material_id = 0
                 /\ CostedBefore(lines[1].crude_product_id, i) # {}) =>
                    /\ row.prior_process_cost
                            = LineShare(lines[1].crude_product_id, i, lines[1])
                    /\ row.prior_process_cost > 0 => row.unit_cost > 0

\* crude product 2, of six units of crude product 1 at 10.0000: a prior
\* process cost of 60.0000 and a unit cost of zero
C6_Witness ==
    /\ Calculated
    /\ Len(last.crude_product_costs) >= 2
    /\ last.crude_product_costs[1].crude_product_id = 1
    /\ last.crude_product_costs[1].unit_cost = 10 * TicksPerUnit
    /\ \E i \in DOMAIN last.crude_product_costs :
          /\ last.crude_product_costs[i].crude_product_id = 2
          /\ last.crude_product_costs[i].prior_process_cost = 60 * TicksPerUnit
          /\ last.crude_product_costs[i].total_cost = 60 * TicksPerUnit
          /\ last.crude_product_costs[i].unit_cost = 0

\* r is costed in a run: it is loaded and has an active Stage-1 BOM
IsCosted(r) == r \in DOMAIN md.crude_products /\ ActiveCrudeBoms(r) # {}

\* r comes before c in the order of Stage 1: non-blend first, then by id
Precedes(r, c) ==
    LET key(x) == IF md.crude_products[x].is_blend THEN 1 ELSE 0
    IN  key(r) < key(c) \/ (key(r) = key(c) /\ r < c)

\* the prior process cost of the item at position i is the sum, over the
\* lines that reference a crude product costed before it, of that crude
\* product's unit cost times the quantity of the line
PriorFromCostedBefore(i) ==
    LET row == last.crude_product_costs[i]
    IN  row.prior_process_cost =
            SumLines([n \in 1..Len(CrudeLinesOf(row.crude_product_id)) |->
                LET l == CrudeLinesOf(row.crude_product_id)[n]
                IN  IF CostedBefore(l.crude_product_id, i) # {}
                    THEN LineShare(l.crude_product_id, i, l) ELSE 0])

\* C7 (as stated): when a crude product with crude-product BOM lines is
\* costed, every crude product referenced by those lines that has its own
\* active Stage-1 BOM has already been costed in this run, and its unit cost
\* is used.
C7_InputsCostedFirst ==
    Calculated =>
        \A i \in DOMAIN last.crude_product_costs :
            LET lines == CrudeLinesOf(last.crude_product_costs[i].crude_product_id)
            IN  /\ \A n \in DOMAIN lines :
                        ActiveCrudeBoms(lines[n].crude_product_id) # {} =>
                            CostedBefore(lines[n].crude_product_id, i) # {}
                /\ PriorFromCostedBefore(i)

\* C7 (amended): when a crude product with crude-product BOM lines is
\* costed, a referenced crude product has already been costed in this run
\* exactly if it is active, has its own active Stage-1 BOM and comes before
\* the item in the order (non-blend first, then by id); the unit costs of
\* those are used, and the other referenced crude products add nothing.
C7_PrecedingInputsCostedFirst ==
    Calculated =>
        \A i \in DOMAIN last.crude_product_costs :
            LET c == last.crude_product_costs[i].crude_product_id
                lines == CrudeLinesOf(c)
            IN  /\ \A n \in DOMAIN lines :
                        LET r == lines[n].crude_product_id
                        IN  (IsCosted(r) /\ Precedes(r, c))
                                <=> CostedBefore(r, i) # {}
                /\ PriorFromCostedBefore(i)

\* crude product 2, flagged a blend, of crude product 3, not flagged: 3 is
\* costed before 2 and 2 carries its cost
C7_Witness ==
    /\ Calculated
    /\ Len(last.crude_product_costs) = 3
    /\ last.crude_product_costs[1].crude_product_id = 1
    /\ last.crude_product_costs[2].crude_product_id = 3
    /\ last.crude_product_costs[3].crude_product_id = 2
    /\ last.crude_product_costs[3].prior_process_cost
            = last.crude_product_costs[2].unit_cost
    /\ last.crude_product_costs[3].prior_process_cost > 0

(***************************************************************************)
(* variance_analysis.py                                                    *)
(*                                                                         *)
(* A percentage is in ticks of 0.0001 percent, as an amount is in ticks.   *)
(* A flag_reason, a formatted string, is the tuple of what it is formatted *)
(* from; None is <<>>.                                                     *)
(***************************************************************************)
COST_ELEMENTS ==
    <<"crude_product_cost", "packaging_cost", "labor_cost", "overhead_cost",
      "outsourcing_cost">>

\* the digits of a percentage after the point of the quotient: HUNDRED is
\* two of them, FOUR the other four
PercentDigits == 6

RECURSIVE LongDivision(_, _, _, _)
\* n more digits of a quotient q with r left over, the divisor being s
LongDivision(q, r, s, n) ==
    IF n = 0 THEN [q |-> q, r |-> r]
    ELSE LongDivision(q * 10 + (r * 10) \div s, (r * 10) % s, s, n - 1)

\* a / s * HUNDRED for a >= 0 and s > 0: the quotient cut to four places, in
\* ticks, and what is left over
PercentQuotient(a, s) == LongDivision(a \div s, a % s, s, PercentDigits)

\* Mutant: the percentage is cut to four places, not rounded
QuantizedPercent_truncated(a, s) == PercentQuotient(a, s).q

\* (a / s * HUNDRED).quantize(FOUR, ROUND_HALF_UP) for a >= 0 and s > 0
QuantizedPercent(a, s) ==
    IF 2 * PercentQuotient(a, s).r >= s
    THEN PercentQuotient(a, s).q + 1
    ELSE PercentQuotient(a, s).q

\* _calc_percent: zero when the standard is zero
calc_percent(variance, standard) ==
    IF standard = 0 THEN 0
    ELSE IF (variance < 0) = (standard < 0)
         THEN QuantizedPercent(Abs(variance), Abs(standard))
         ELSE -QuantizedPercent(Abs(variance), Abs(standard))

\* Mutant: the list of products is not looked at
InScope_period_only(row, period_id, product_ids) == row.period_id = period_id

\* does a row fall under "period_id == ..., product_id.in_(product_ids)";
\* an empty or absent list of products does not filter
InScope(row, period_id, product_ids) ==
    /\ row.period_id = period_id
    /\ product_ids # {} => row.product_id \in product_ids

\* Mutant: a percentage equal to the threshold is flagged too
is_flagged_at_threshold(ac_pct, threshold_percent) ==
    Abs(ac_pct) >= threshold_percent

\* "is_flagged = abs(ac_pct) > threshold_percent"
is_flagged(ac_pct, threshold_percent) == Abs(ac_pct) > threshold_percent

\* the VarianceRecord row of one cost element of one ActualCost row
VarianceRecordOf(sc, ac, field_name, period_id, threshold_percent) ==
    LET ac_std == sc[field_name]
        ac_act == ac[field_name]
        ac_variance == ac_act - ac_std
        ac_pct == calc_percent(ac_variance, ac_std)
        ac_favorable == ac_variance <= 0
        flagged == is_flagged(ac_pct, threshold_percent)
    IN  [product_id |-> sc.product_id,
         cost_center_id |-> ac.cost_center_id,
         period_id |-> period_id,
         variance_type |-> "price",
         cost_element |-> field_name,
         standard_amount |-> ac_std,
         actual_amount |-> ac_act,
         variance_amount |-> ac_variance,
         variance_percent |-> ac_pct,
         is_favorable |-> ac_favorable,
         is_flagged |-> flagged,
         flag_reason |-> IF flagged
                         THEN <<field_name, ac_favorable, threshold_percent, ac_pct>>
                         ELSE <<>>]

\* Mutant: the rows of earlier analyses are kept
DeleteVarianceRecords_nothing(table, period_id, product_ids) == table

\* Mutant: the rows of the period are deleted whatever the products are
DeleteVarianceRecords_whole_period(table, period_id, product_ids) ==
    [r \in {x \in BagToSet(table) : x.period_id # period_id} |-> table[r]]

\* "delete(VarianceRecord).where(period_id == ...)", narrowed to the
\* products when some are given
DeleteVarianceRecords(table, period_id, product_ids) ==
    [r \in {x \in BagToSet(table) : ~InScope(x, period_id, product_ids)} |-> table[r]]

\* what analyze_variances computes: the rows it adds and what it returns
Analysis(stds, acts, period_id, product_ids, threshold_percent) ==
    LET std_rows == {i \in 1..Len(stds) : InScope(stds[i], period_id, product_ids)}
        act_rows == {i \in 1..Len(acts) : InScope(acts[i], period_id, product_ids)}
        \* a dict comprehension: the last row of a product wins
        std_of(p) == stds[CHOOSE i \in std_rows :
                            /\ stds[i].product_id = p
                            /\ \A j \in std_rows : stds[j].product_id = p => j <= i]
        all_product_ids == {stds[i].product_id : i \in std_rows}
                           \cap {acts[i].product_id : i \in act_rows}
        cells == {<<i, e>> \in act_rows \X (1..Len(COST_ELEMENTS)) :
                        acts[i].product_id \in all_product_ids}
        rec(c) == VarianceRecordOf(std_of(acts[c[1]].product_id), acts[c[1]],
                                   COST_ELEMENTS[c[2]], period_id, threshold_percent)
        pids == SortedSeq(all_product_ids)
        std_total(p) == SumOver(std_of(p), COST_ELEMENTS, Len(COST_ELEMENTS))
        act_total(i) == SumOver(acts[i], COST_ELEMENTS, Len(COST_ELEMENTS))
        rows == SortedSeq({i \in act_rows : acts[i].product_id \in all_product_ids})
        total_standard == SumOver([p \in all_product_ids |-> std_total(p)],
                                  pids, Len(pids))
        total_actual == SumOver([i \in act_rows |-> act_total(i)], rows, Len(rows))
    IN  [records |-> [r \in {rec(c) : c \in cells} |->
                        Cardinality({c \in cells : rec(c) = r})],
         products_analyzed |-> Cardinality(all_product_ids),
         records_created |-> Cardinality(cells),
         flagged_count |-> Cardinality({c \in cells : rec(c).is_flagged}),
         total_standard |-> total_standard,
         total_actual |-> total_actual,
         total_variance |-> total_actual - total_standard]

\* analyze_variances(db, period_id, product_ids, threshold_percent);
\* records_deleted is the row count of its DELETE statement
AnalyzeVariances(period_id, product_ids, threshold_percent) ==
    \E a \in {Analysis(standard_costs, actual_costs, period_id, product_ids,
                       threshold_percent)} :
    \E kept \in {DeleteVarianceRecords(variance_records, period_id, product_ids)} :
        /\ variance_records' = kept (+) a.records
        /\ last' = [op |-> "analyze", period_id |-> period_id,
                    product_ids |-> product_ids,
                    threshold_percent |-> threshold_percent,
                    error |-> "",
                    records_deleted |->
                        BagCardinality(variance_records) - BagCardinality(kept),
                    products_analyzed |-> a.products_analyzed,
                    records_created |-> a.records_created,
                    flagged_count |-> a.flagged_count,
                    total_standard |-> a.total_standard,
                    total_actual |-> a.total_actual,
                    total_variance |-> a.total_variance]
        /\ UNCHANGED <<md, tables, actual_costs, sessions, raced, auditVars, masterVars>>

\* POST /actual-costs: 409 when the product has a row for the cost center
\* and the period, else the row is added
CreateActualCost(data) ==
    \E call \in {[op |-> "create_actual_cost", data |-> data]} :
        IF \E i \in 1..Len(actual_costs) :
                /\ actual_costs[i].product_id = data.product_id
                /\ actual_costs[i].cost_center_id = data.cost_center_id
                /\ actual_costs[i].period_id = data.period_id
        THEN /\ last' = call @@ [error |-> "409"]
             /\ UNCHANGED <<md, tables, varianceVars, auditVars, masterVars>>
        ELSE /\ actual_costs' = Append(actual_costs, data)
             /\ last' = call @@ [error |-> ""]
             /\ UNCHANGED <<md, tables, variance_records, sessions, raced, auditVars, masterVars>>

(***************************************************************************)
(* The variance specification: standard costs of products 21 and 22 are    *)
(* in the store, actual costs come in, periods are analyzed.               *)
(***************************************************************************)
MaxActualRows == 2

StandardRow(product_id, period_id, crude, packaging, labor, overhead, outsourcing) ==
    [product_id |-> product_id, period_id |-> period_id,
     crude_product_cost |-> crude, packaging_cost |-> packaging,
     labor_cost |-> labor, overhead_cost |-> overhead,
     outsourcing_cost |-> outsourcing,
     total_cost |-> crude + packaging + labor + overhead + outsourcing,
     unit_cost |-> crude + packaging + labor + overhead + outsourcing,
     lot_size |-> TicksPerUnit, notes |-> 0]

VarianceStandardCosts ==
    << StandardRow(21, 1, 100, 40, 0, 30, 1000000),
       StandardRow(22, 1, 300, 0, 50, 0, 0),
       StandardRow(21, 2, 100, 40, 0, 30, 1000000) >>

\* the amounts a new ActualCost row may carry
ActualAmounts ==
    { [crude_product_cost |-> 80, packaging_cost |-> 42, labor_cost |-> 50,
       overhead_cost |-> 19, outsourcing_cost |-> 1050001,
       total_cost |-> 1050192, source_system |-> "manual"],
      [crude_product_cost |-> 130, packaging_cost |-> 40, labor_cost |-> 0,
       overhead_cost |-> 21, outsourcing_cost |-> 950000,
       total_cost |-> 950191, source_system |-> "manual"] }

\* 5.0 percent, the default, and 10.0 percent
ThresholdChoices == {5 * TicksPerUnit, 10 * TicksPerUnit}

VarianceInit ==
    /\ AllocIdle
    /\ md = [EmptyMd EXCEPT !.periods = {1, 2}]
    /\ standard_costs = VarianceStandardCosts
    /\ crude_product_standard_costs = <<>>
    /\ cost_allocations = <<>>
    /\ last = [op |-> "none"]
    /\ actual_costs = <<>>
    /\ variance_records = EmptyBag
    /\ sessions = [p \in Sessions |-> IdleSession]
    /\ raced = FALSE
    /\ AuditIdle
    /\ MasterIdle

CreateActualCostCall ==
    /\ Len(actual_costs) < MaxActualRows
    /\ \E product_id \in {21, 22}, cost_center_id \in {11, 12},
          period_id \in md.periods, amounts \in ActualAmounts :
            CreateActualCost(
                [product_id |-> product_id, cost_center_id |-> cost_center_id,
                 period_id |-> period_id] @@ amounts)
    /\ UNCHANGED allocVars

RunVarianceAnalysis ==
    /\ \E period_id \in md.periods, product_ids \in ProductSubsets,
          threshold_percent \in ThresholdChoices :
            AnalyzeVariances(period_id, product_ids, threshold_percent)
    /\ UNCHANGED allocVars

VarianceNext == CreateActualCostCall \/ RunVarianceAnalysis

SpecVariance == VarianceInit /\ [][VarianceNext]_vars

\* two analyses in a row with the same arguments
AnalyzedAgain ==
    /\ last.op = "analyze" /\ last'.op = "analyze"
    /\ last'.period_id = last.period_id
    /\ last'.product_ids = last.product_ids
    /\ last'.threshold_percent = last.threshold_percent

\* C10: an analysis repeated for the same period, products and threshold
\* over unchanged standard and actual costs leaves the VarianceRecord rows
\* the first one left, by count and by values: it deletes the rows the
\* first one created and creates as many.
C10_AnalysisTwiceIsOnce ==
    [][AnalyzedAgain =>
        /\ variance_records' = variance_records
        /\ last'.records_created = last.records_created
        /\ last'.records_deleted = last.records_created]_vars

\* an analysis of period 1 that has deleted the ten rows of an earlier one
\* and created ten, some of them flagged
C10_Witness ==
    /\ last.op = "analyze" /\ last.period_id = 1 /\ last.product_ids = {}
    /\ last.records_deleted = 10
    /\ last.records_created = 10
    /\ last.flagged_count > 0
    /\ BagCardinality(variance_records) = 10

(***************************************************************************)
(* analyze_variances statement by statement.  A request is suspended at    *)
(* each awaited statement, and another request may run its own statements  *)
(* meanwhile: the SELECT of the standard costs, the SELECT of the actual   *)
(* costs, the DELETE, and the flush that sends the INSERTs of the rows     *)
(* added since.  A statement acts on the rows that are in the table when   *)
(* it runs.                                                                *)
(***************************************************************************)

\* "std_result = await db.execute(std_query)": the request starts and reads
\* the standard costs
SelectStandardCosts(p, period_id, product_ids, threshold_percent) ==
    /\ sessions[p].pc = "idle"
    /\ sessions' = [sessions EXCEPT ![p] =
            [pc |-> "select_actual", period_id |-> period_id,
             product_ids |-> product_ids,
             threshold_percent |-> threshold_percent,
             stds |-> standard_costs]]
    /\ UNCHANGED <<storeVars, actual_costs, variance_records, raced, auditVars, masterVars>>

\* "act_result = await db.execute(act_query)"
SelectActualCosts(p) ==
    /\ sessions[p].pc = "select_actual"
    /\ sessions' = [sessions EXCEPT ![p] =
            [pc |-> "delete", acts |-> actual_costs] @@ sessions[p]]
    /\ UNCHANGED <<storeVars, actual_costs, variance_records, raced, auditVars, masterVars>>

\* "await db.execute(del_query)"
DeleteStatement(p) ==
    /\ sessions[p].pc = "delete"
    /\ \E kept \in {DeleteVarianceRecords(variance_records, sessions[p].period_id,
                                          sessions[p].product_ids)} :
        /\ variance_records' = kept
        /\ sessions' = [sessions EXCEPT ![p] =
                [pc |-> "flush",
                 records_deleted |->
                    BagCardinality(variance_records) - BagCardinality(kept)]
                @@ sessions[p]]
    /\ raced' = (raced \/ \E q \in Sessions \ {p} : sessions[q].pc = "flush")
    /\ UNCHANGED <<storeVars, actual_costs, auditVars, masterVars>>

\* the loop over the products, which adds the rows, and "await db.flush()"
\* which inserts them; the request returns
FlushStatement(p) ==
    /\ sessions[p].pc = "flush"
    /\ \E a \in {Analysis(sessions[p].stds, sessions[p].acts, sessions[p].period_id,
                          sessions[p].product_ids, sessions[p].threshold_percent)} :
        /\ variance_records' = variance_records (+) a.records
        /\ last' = [op |-> "analyze", period_id |-> sessions[p].period_id,
                    product_ids |-> sessions[p].product_ids,
                    threshold_percent |-> sessions[p].threshold_percent,
                    error |-> "",
                    records_deleted |-> sessions[p].records_deleted,
                    products_analyzed |-> a.products_analyzed,
                    records_created |-> a.records_created,
                    flagged_count |-> a.flagged_count,
                    total_standard |-> a.total_standard,
                    total_actual |-> a.total_actual,
                    total_variance |-> a.total_variance]
    /\ sessions' = [sessions EXCEPT ![p] = IdleSession]
    /\ UNCHANGED <<md, tables, actual_costs, raced, auditVars, masterVars>>

ActualRow(product_id, cost_center_id, period_id, amounts) ==
    [product_id |-> product_id, cost_center_id |-> cost_center_id,
     period_id |-> period_id] @@ amounts

\* the ActualCost tables the requests may find
ActualCostTables ==
    { << ActualRow(21, 11, 1, a) >> : a \in ActualAmounts }
    \cup
    { << ActualRow(21, 11, 1, a), ActualRow(22, 12, 1, a), ActualRow(21, 12, 2, a) >> :
        a \in ActualAmounts }

ConcurrentInit ==
    /\ AllocIdle
    /\ md = [EmptyMd EXCEPT !.periods = {1, 2}]
    /\ standard_costs = VarianceStandardCosts
    /\ crude_product_standard_costs = <<>>
    /\ cost_allocations = <<>>
    /\ last = [op |-> "none"]
    /\ actual_costs \in ActualCostTables
    /\ variance_records = EmptyBag
    /\ sessions = [p \in Sessions |-> IdleSession]
    /\ raced = FALSE
    /\ AuditIdle
    /\ MasterIdle

StartAnalysis ==
    /\ \E p \in Sessions, period_id \in md.periods, product_ids \in ProductSubsets :
            SelectStandardCosts(p, period_id, product_ids, 5 * TicksPerUnit)
    /\ UNCHANGED allocVars

ReadActualCosts == (\E p \in Sessions : SelectActualCosts(p)) /\ UNCHANGED allocVars

DeleteOldRecords == (\E p \in Sessions : DeleteStatement(p)) /\ UNCHANGED allocVars

FlushNewRecords == (\E p \in Sessions : FlushStatement(p)) /\ UNCHANGED allocVars

ConcurrentNext ==
    StartAnalysis \/ ReadActualCosts \/ DeleteOldRecords \/ FlushNewRecords

SpecConcurrent == ConcurrentInit /\ [][ConcurrentNext]_vars

\* the number of VarianceRecord rows that have the key of row r
RowsWithKeyOf(r) ==
    LET same == {x \in BagToSet(variance_records) :
                    /\ x.product_id = r.product_id
                    /\ x.cost_center_id = r.cost_center_id
                    /\ x.period_id = r.period_id
                    /\ x.cost_element = r.cost_element}
        F[S \in SUBSET same] ==
            IF S = {} THEN 0
            ELSE LET x == CHOOSE y \in S : TRUE
                 IN  variance_records[x] + F[S \ {x}]
    IN  F[same]

DuplicateVarianceRecords ==
    \E r \in BagToSet(variance_records) : RowsWithKeyOf(r) > 1

\* C11: the delete-then-reinsert of analyze_variances keeps one row per
\* (product, cost center, period, cost element) as long as no request runs
\* its DELETE between the DELETE and the flush of another; when two requests
\* interleave that way, more than one row for a key is reachable (the
\* witness).
C11_DuplicatesOnlyWhenInterleaved == DuplicateVarianceRecords => raced

\* two requests for period 1 have both deleted before either flushed, both
\* have returned, and a key has two rows
C11_Witness ==
    /\ raced
    /\ \A p \in Sessions : sessions[p].pc = "idle"
    /\ last.op = "analyze" /\ last.period_id = 1
    /\ DuplicateVarianceRecords

\* p, in ticks, is v / s * 100 rounded half-up to four places, for s # 0:
\* |v| * 10^6 - |p| * |s| lies in [-|s| / 2, |s| / 2), and p has the sign of
\* v / s.  The difference is taken in two steps of three digits.
IsRoundedPercent(p, v, s) ==
    LET lead == Abs(v) * 1000 - (Abs(p) \div 1000) * Abs(s)
    IN  /\ p # 0 => ((p < 0) <=> ((v < 0) # (s < 0)))
        /\ -Abs(s) <= lead /\ lead <= Abs(s)
        /\ LET rest == 1000 * lead - (Abs(p) % 1000) * Abs(s)
           IN  -Abs(s) <= 2 * rest /\ 2 * rest < Abs(s)

\* C12: every VarianceRecord row has variance_amount = actual_amount -
\* standard_amount, is favorable exactly when the variance is zero or less,
\* and its variance_percent is variance / standard * 100 rounded half-up to
\* four places, or zero when the standard amount is zero.
C12_VarianceFigures ==
    \A r \in BagToSet(variance_records) :
        /\ r.variance_amount = r.actual_amount - r.standard_amount
        /\ r.is_favorable <=> (r.variance_amount <= 0)
        /\ IF r.standard_amount = 0
           THEN r.variance_percent = 0
           ELSE IsRoundedPercent(r.variance_percent, r.variance_amount,
                                 r.standard_amount)

\* rows of 100 against 80 (-20, favorable, -20 percent), of 0 against 50
\* (50, unfavorable, 0 percent), of 100 against 130 (30, unfavorable) and of
\* 30 against 19 (-36.6667 percent, rounded away from zero) are in the table
C12_Witness ==
    /\ \E r \in BagToSet(variance_records) :
            /\ r.standard_amount = 100 /\ r.actual_amount = 80
            /\ r.variance_amount = -20 /\ r.is_favorable
            /\ r.variance_percent = -20 * TicksPerUnit
    /\ \E r \in BagToSet(variance_records) :
            /\ r.standard_amount = 0 /\ r.actual_amount = 50
            /\ r.variance_amount = 50 /\ ~r.is_favorable
            /\ r.variance_percent = 0
    /\ \E r \in BagToSet(variance_records) :
            /\ r.standard_amount = 100 /\ r.actual_amount = 130
            /\ r.variance_amount = 30 /\ ~r.is_favorable
            /\ r.variance_percent = 30 * TicksPerUnit
    /\ \E r \in BagToSet(variance_records) :
            /\ r.standard_amount = 30 /\ r.actual_amount = 19
            /\ r.variance_percent = -366667

\* the rows the last analysis wrote: those of its period and products
WrittenByLastAnalysis ==
    {r \in BagToSet(variance_records) : InScope(r, last.period_id, last.product_ids)}

\* C13: a row is flagged exactly when the absolute value of its
\* variance_percent is strictly greater than the threshold of the analysis
\* that wrote it, and it has a flag_reason exactly when it is flagged.
C13_FlaggedAboveThreshold ==
    (last.op = "analyze" /\ last.error = "") =>
        \A r \in WrittenByLastAnalysis :
            /\ r.is_flagged <=> (Abs(r.variance_percent) > last.threshold_percent)
            /\ (r.flag_reason # <<>>) <=> r.is_flagged

\* an analysis with threshold 5.0 has written rows at exactly 5.0 and -5.0
\* percent that are not flagged, and a row at 5.0001 percent that is flagged
\* and has a flag_reason
C13_Witness ==
    /\ last.op = "analyze" /\ last.threshold_percent = 5 * TicksPerUnit
    /\ \E r \in WrittenByLastAnalysis :
            /\ r.variance_percent = 5 * TicksPerUnit
            /\ ~r.is_flagged /\ r.flag_reason = <<>>
    /\ \E r \in WrittenByLastAnalysis :
            /\ r.variance_percent = -5 * TicksPerUnit
            /\ ~r.is_flagged /\ r.flag_reason = <<>>
    /\ \E r \in WrittenByLastAnalysis :
            /\ r.variance_percent = 5 * TicksPerUnit + 1
            /\ r.is_flagged /\ r.flag_reason # <<>>

(***************************************************************************)
(* reconciliation.py                                                       *)
(*                                                                         *)
(* A column that may be None holds a sequence: <<>> for None, <<v>> for    *)
(* the value v.  A row's id and timestamps are left out.                   *)
(***************************************************************************)

\* sources.get(source_system) after the grouping loop: the last row of the
\* product from that source in all_costs, or None
SourceCost(all_costs, product_id, source_system) ==
    LET rows == {i \in 1..Len(all_costs) :
                    /\ all_costs[i].product_id = product_id
                    /\ all_costs[i].source_system = source_system}
    IN  IF rows = {} THEN <<>>
        ELSE <<all_costs[CHOOSE i \in rows : \A j \in rows : j <= i]>>

\* the keys of by_product in insertion order: the products in the order
\* they first come in all_costs
GroupedProducts(all_costs) ==
    LET F[i \in 0..Len(all_costs)] ==
            IF i = 0 THEN <<>>
            ELSE IF all_costs[i].product_id \in SeqToSet(F[i - 1])
                 THEN F[i - 1]
                 ELSE Append(F[i - 1], all_costs[i].product_id)
    IN  F[Len(all_costs)]

ReconciliationRow(period_id, product_id, value_a, value_b, difference, status, notes) ==
    [period_id |-> period_id, entity_type |-> "product", entity_id |-> product_id,
     source_a |-> "sc_system", source_b |-> "kanjyo_bugyo",
     value_a |-> value_a, value_b |-> value_b, difference |-> difference,
     status |-> status, notes |-> notes]

\* Mutant: a difference equal to the threshold is a discrepancy
reconciliation_status_strict(value_a, value_b, threshold) ==
    IF Abs(value_a - value_b) < threshold THEN "matched" ELSE "discrepancy"

\* "diff = abs(value_a - value_b); if diff <= threshold: matched"
reconciliation_status(value_a, value_b, threshold) ==
    IF Abs(value_a - value_b) <= threshold THEN "matched" ELSE "discrepancy"

\* one pass of the loop over by_product: the rows it adds, none or one
ReconcileProduct(period_id, product_id, sc_cost, bugyo_cost, threshold) ==
    IF sc_cost # <<>> /\ bugyo_cost # <<>>
    THEN << ReconciliationRow(period_id, product_id,
                <<sc_cost[1].total_cost>>, <<bugyo_cost[1].total_cost>>,
                <<sc_cost[1].total_cost - bugyo_cost[1].total_cost>>,
                reconciliation_status(sc_cost[1].total_cost,
                                      bugyo_cost[1].total_cost, threshold),
                "") >>
    ELSE IF sc_cost # <<>>
    THEN << ReconciliationRow(period_id, product_id,
                <<sc_cost[1].total_cost>>, <<>>, <<>>, "unmatched",
                "no kanjyo_bugyo data") >>
    ELSE IF bugyo_cost # <<>>
    THEN << ReconciliationRow(period_id, product_id,
                <<>>, <<bugyo_cost[1].total_cost>>, <<>>, "unmatched",
                "no sc_system data") >>
    ELSE <<>>

\* the results of reconcile_period for the rows all_costs, read in that order
ReconcileCosts(all_costs, period_id, threshold) ==
    LET order == GroupedProducts(all_costs)
        F[i \in 0..Len(order)] ==
            IF i = 0 THEN <<>>
            ELSE F[i - 1] \o ReconcileProduct(period_id, order[i],
                                SourceCost(all_costs, order[i], "sc_system"),
                                SourceCost(all_costs, order[i], "kanjyo_bugyo"),
                                threshold)
    IN  F[Len(order)]

\* Mutant: the results of the period are not deleted first
reconcile_period_keeping_results(period_id, threshold) ==
    \E all_costs \in DistinctSeqs(
            {actual_costs[i] : i \in {j \in 1..Len(actual_costs) :
                                        actual_costs[j].period_id = period_id}},
            Cardinality({j \in 1..Len(actual_costs) :
                            actual_costs[j].period_id = period_id}),
            Cardinality({j \in 1..Len(actual_costs) :
                            actual_costs[j].period_id = period_id})) :
    \E results \in {ReconcileCosts(all_costs, period_id, threshold)} :
        /\ reconciliation_results' = reconciliation_results \o results
        /\ last' = [op |-> "reconcile", period_id |-> period_id,
                    threshold |-> threshold, error |-> "", results |-> results]
        /\ UNCHANGED <<md, tables, varianceVars, masterVars>>

\* reconcile_period(db, period_id, threshold): the results of the period are
\* deleted, the ActualCost rows of the period are read, in an order the
\* SELECT leaves open, and the results are added and returned
reconcile_period(period_id, threshold) ==
    \E all_costs \in DistinctSeqs(
            {actual_costs[i] : i \in {j \in 1..Len(actual_costs) :
                                        actual_costs[j].period_id = period_id}},
            Cardinality({j \in 1..Len(actual_costs) :
                            actual_costs[j].period_id = period_id}),
            Cardinality({j \in 1..Len(actual_costs) :
                            actual_costs[j].period_id = period_id})) :
    \E results \in {ReconcileCosts(all_costs, period_id, threshold)} :
        /\ reconciliation_results' =
                SelectSeq(reconciliation_results, LAMBDA r : r.period_id # period_id)
                \o results
        /\ last' = [op |-> "reconcile", period_id |-> period_id,
                    threshold |-> threshold, error |-> "", results |-> results]
        /\ UNCHANGED <<md, tables, varianceVars, masterVars>>

(***************************************************************************)
(* The reconciliation specification: actual costs of products 21 and 22    *)
(* come in from the source systems, periods are reconciled.                *)
(***************************************************************************)

MaxImportedRows == 3

\* the cost center, source system and total_cost of a new ActualCost row:
\* 1000 from sc_system, 1500 or 2500 from kanjyo_bugyo, a second row from
\* sc_system and a row entered by hand
ImportChoices ==
    { [cost_center_id |-> 11, source_system |-> "sc_system",
       total_cost |-> 1000 * TicksPerUnit],
      [cost_center_id |-> 12, source_system |-> "kanjyo_bugyo",
       total_cost |-> 1500 * TicksPerUnit],
      [cost_center_id |-> 12, source_system |-> "kanjyo_bugyo",
       total_cost |-> 2500 * TicksPerUnit],
      [cost_center_id |-> 13, source_system |-> "sc_system",
       total_cost |-> 1500 * TicksPerUnit],
      [cost_center_id |-> 13, source_system |-> "manual",
       total_cost |-> 1000 * TicksPerUnit] }

\* 1000, the default, and 500
ReconcileThresholds == {1000 * TicksPerUnit, 500 * TicksPerUnit}

ReconcileInit ==
    /\ AllocIdle
    /\ md = [EmptyMd EXCEPT !.periods = {1, 2}]
    /\ standard_costs = <<>>
    /\ crude_product_standard_costs = <<>>
    /\ cost_allocations = <<>>
    /\ last = [op |-> "none"]
    /\ VarianceIdle
    /\ AuditIdle
    /\ MasterIdle

ImportActualCost ==
    /\ Len(actual_costs) < MaxImportedRows
    /\ \E product_id \in {21, 22}, src \in ImportChoices, period_id \in md.periods :
            CreateActualCost(
                [product_id |-> product_id, period_id |-> period_id,
                 crude_product_cost |-> src.total_cost, packaging_cost |-> 0,
                 labor_cost |-> 0, overhead_cost |-> 0, outsourcing_cost |-> 0]
                @@ src)
    /\ UNCHANGED allocVars

RunReconciliation ==
    /\ \E period_id \in md.periods, threshold \in ReconcileThresholds :
            reconcile_period(period_id, threshold)
    /\ UNCHANGED allocVars

ReconcileNext == ImportActualCost \/ RunReconciliation

SpecReconcile == ReconcileInit /\ [][ReconcileNext]_vars

\* the total_cost values of the ActualCost rows of a product, a period and a
\* source system
SourceTotals(product_id, period_id, source_system) ==
    {actual_costs[i].total_cost : i \in {j \in 1..Len(actual_costs) :
        /\ actual_costs[j].product_id = product_id
        /\ actual_costs[j].period_id = period_id
        /\ actual_costs[j].source_system = source_system}}

\* the results the last reconciliation returned for a product
ResultsOf(product_id) ==
    {last.results[i] : i \in {j \in 1..Len(last.results) :
        last.results[j].entity_id = product_id}}

Reconciled == last.op = "reconcile" /\ last.error = ""

\* C14: reconcile_period classifies each product by the total_cost of its
\* sc_system row (a) and of its kanjyo_bugyo row (b) in the period: both
\* present and |a - b| <= threshold gives matched, both present and
\* |a - b| > threshold gives discrepancy, in both cases with the values and
\* the difference a - b recorded; exactly one present gives unmatched with
\* the value of the missing side and the difference left empty.
C14_ReconciliationClasses ==
    Reconciled =>
        \A p \in {actual_costs[i].product_id : i \in 1..Len(actual_costs)} :
            LET sc == SourceTotals(p, last.period_id, "sc_system")
                bugyo == SourceTotals(p, last.period_id, "kanjyo_bugyo")
            IN  /\ (sc # {} /\ bugyo # {}) =>
                    \E r \in ResultsOf(p) : \E a \in sc, b \in bugyo :
                        /\ r.value_a = <<a>> /\ r.value_b = <<b>>
                        /\ r.difference = <<a - b>>
                        /\ Abs(a - b) <= last.threshold => r.status = "matched"
                        /\ Abs(a - b) > last.threshold => r.status = "discrepancy"
                /\ (sc # {} /\ bugyo = {}) =>
                    \E r \in ResultsOf(p) : \E a \in sc :
                        /\ r.status = "unmatched"
                        /\ r.value_a = <<a>> /\ r.value_b = <<>>
                        /\ r.difference = <<>>
                /\ (sc = {} /\ bugyo # {}) =>
                    \E r \in ResultsOf(p) : \E b \in bugyo :
                        /\ r.status = "unmatched"
                        /\ r.value_a = <<>> /\ r.value_b = <<b>>
                        /\ r.difference = <<>>
                /\ Cardinality(ResultsOf(p)) <= 1

\* period 1 reconciled with threshold 1000: product 21 with 1000 from
\* sc_system and 2500 from kanjyo_bugyo is a discrepancy of -1500, product 22
\* with kanjyo_bugyo alone is unmatched
C14_Witness ==
    /\ Reconciled /\ last.period_id = 1 /\ last.threshold = 1000 * TicksPerUnit
    /\ \E r \in ResultsOf(21) :
            /\ r.status = "discrepancy"
            /\ r.value_a = <<1000 * TicksPerUnit>>
            /\ r.value_b = <<2500 * TicksPerUnit>>
            /\ r.difference = <<-1500 * TicksPerUnit>>
    /\ \E r \in ResultsOf(22) :
            /\ r.status = "unmatched"
            /\ r.value_a = <<>> /\ r.value_b = <<1500 * TicksPerUnit>>

\* period 1 reconciled with threshold 500: product 21 with 1000 and 1500,
\* a difference equal to the threshold, is matched
C14_WitnessMatched ==
    /\ Reconciled /\ last.period_id = 1 /\ last.threshold = 500 * TicksPerUnit
    /\ \E r \in ResultsOf(21) :
            /\ r.status = "matched"
            /\ r.value_a = <<1000 * TicksPerUnit>>
            /\ r.value_b = <<1500 * TicksPerUnit>>
            /\ r.difference = <<-500 * TicksPerUnit>>

(***************************************************************************)
(* Rule resolution: the rules of a cost center are loaded and the rule of  *)
(* a cost element is looked up, over allocation_rules tables of a few      *)
(* rows.                                                                   *)
(***************************************************************************)
MaxRules == 2

\* what a row of allocation_rules may hold besides its id
RuleChoices ==
    [source_cost_center_id : {11, 12}, cost_element : {"labor", "overhead", "NULL"},
     priority : {0, 10}, is_active : BOOLEAN]

\* the tables: the row at position i has the id 40 + i
RuleTables ==
    UNION { { [i \in 1..n |->
                Rule(40 + i, c[i].source_cost_center_id, c[i].cost_element,
                     "weight_based", c[i].priority, c[i].is_active, <<>>)] :
              c \in [1..n -> RuleChoices] } : n \in 0..MaxRules }

RulesInit ==
    /\ AllocIdle
    /\ \E rules \in RuleTables : md = [EmptyMd EXCEPT !.allocation_rules = rules]
    /\ standard_costs = <<>>
    /\ crude_product_standard_costs = <<>>
    /\ cost_allocations = <<>>
    /\ last = [op |-> "none"]
    /\ VarianceIdle
    /\ AuditIdle
    /\ MasterIdle

\* "rules = await load_allocation_rules(db, source_cost_center_id)" and
\* "matching_rule = _find_matching_rule(rules, cost_element)"
ResolveRule ==
    /\ \E source_cost_center_id \in {11, 12}, cost_element \in {"labor", "overhead"} :
        last' = [op |-> "find_matching_rule",
                 source_cost_center_id |-> source_cost_center_id,
                 cost_element |-> cost_element,
                 rule |-> find_matching_rule(
                            load_allocation_rules(md.allocation_rules,
                                                  source_cost_center_id),
                            cost_element)]
    /\ UNCHANGED <<md, tables, allocVars, varianceVars, auditVars, masterVars>>

RulesNext == ResolveRule

SpecRules == RulesInit /\ [][RulesNext]_vars

\* the active rules of the cost center of the last lookup that are for a
\* cost element
ActiveRulesFor(cost_element) ==
    {r \in SeqToSet(md.allocation_rules) :
        /\ r.source_cost_center_id = last.source_cost_center_id
        /\ r.is_active
        /\ r.cost_element = cost_element}

\* r is one of the rules S and none of them has a higher priority
HighestPriorityOf(r, S) == r \in S /\ \A x \in S : x.priority <= r.priority

\* C15: the rule found for a cost element is an active rule of the cost
\* center for that very element of the highest priority among those, if
\* there is one, whatever the priority of the wildcard rules; else a
\* wildcard (NULL) rule of the highest priority among the wildcard rules;
\* else none.
C15_ExactRuleOutranksWildcard ==
    last.op = "find_matching_rule" =>
        IF ActiveRulesFor(last.cost_element) # {}
        THEN HighestPriorityOf(last.rule, ActiveRulesFor(last.cost_element))
        ELSE IF ActiveRulesFor("NULL") # {}
             THEN HighestPriorityOf(last.rule, ActiveRulesFor("NULL"))
             ELSE last.rule = NoRule

\* the labor rule of priority 0 is found although an active wildcard rule
\* of the same cost center has priority 10
C15_Witness ==
    /\ last.op = "find_matching_rule" /\ last.cost_element = "labor"
    /\ last.rule # NoRule
    /\ last.rule.cost_element = "labor" /\ last.rule.priority = 0
    /\ \E w \in ActiveRulesFor("NULL") : w.priority = 10

(***************************************************************************)
(* Properties of the pure allocation functions.                            *)
(***************************************************************************)

\* allocate_by_quantity was called
QuantityCalled == aKind \in {"quantity", "quantity_raised"}

AllQuantitiesZero == \A i \in 1..Len(aItems) : aQty[aItems[i]] = 0

\* C16: allocate_by_quantity with every quantity zero does not raise and
\* returns zero for every item, whatever the total budget.
C16_ZeroQuantitiesGiveZero ==
    (QuantityCalled /\ AllQuantitiesZero) =>
        /\ aKind = "quantity"
        /\ DOMAIN aRes = SeqToSet(aItems)
        /\ \A k \in SeqToSet(aItems) : aRes[k] = 0

\* a call with three items of quantity zero and a budget that is not zero
\* has returned zero for each
C16_Witness ==
    /\ aKind = "quantity" /\ AllQuantitiesZero
    /\ Len(aItems) = 3 /\ aTotal = MaxTotal
    /\ \A k \in SeqToSet(aItems) : aRes[k] = 0

\* C17: for a total budget that is not negative and quantities with a sum
\* that is not zero, between two items that are not the last in iteration
\* order the one with the greater quantity gets at least as much.
C17_MonotoneInQuantity ==
    (aKind = "quantity" /\ aTotal >= 0 /\ AllocQtySum # 0) =>
        \A i, j \in 1..(Len(aItems) - 1) :
            aQty[aItems[i]] > aQty[aItems[j]] =>
                aRes[aItems[i]] >= aRes[aItems[j]]

\* three items of quantity 2, 1 and 1 share a budget of MaxTotal ticks:
\* the first got more than the second
C17_Witness ==
    /\ aKind = "quantity" /\ aTotal = MaxTotal /\ Len(aItems) = 3
    /\ aQty[aItems[1]] = 2 /\ aQty[aItems[2]] = 1 /\ aQty[aItems[3]] = 1
    /\ aRes[aItems[1]] > aRes[aItems[2]]

(***************************************************************************)
(* The product master: POST /api/v1/masters/products.                      *)
(***************************************************************************)

\* the request bodies (ProductCreate): a code and a name; the table holds
\* at most one product for each code
ProductCreates == [code : {"P01", "P02", "P03"}, name : {"a", "b"}]

ProductsInit ==
    /\ StoreIdle
    /\ AllocIdle
    /\ VarianceIdle
    /\ AuditIdle
    /\ products = <<>>

\* "db.add(product)" and "await db.flush()": the INSERT, which the unique
\* index of products.code refuses for a code that is taken (IntegrityError,
\* answered with status 500)
FlushProduct(data) ==
    IF \E i \in 1..Len(products) : products[i].code = data.code
    THEN /\ last' = [op |-> "create_product", status |-> 500, data |-> data]
         /\ UNCHANGED products
    ELSE /\ products' = Append(products,
                               [id |-> Len(products) + 1,
                                code |-> data.code, name |-> data.name])
         /\ last' = [op |-> "create_product", status |-> 201, data |-> data]

\* Mutant: the product is inserted without the look for its code
create_product_unchecked(data) ==
    /\ FlushProduct(data)
    /\ UNCHANGED <<md, tables, allocVars, varianceVars, auditVars>>

create_product(data) ==
    /\ LET existing == {i \in 1..Len(products) : products[i].code = data.code}
       IN  IF existing # {}
           THEN /\ last' = [op |-> "create_product", status |-> 409, data |-> data]
                /\ UNCHANGED products
           ELSE FlushProduct(data)
    /\ UNCHANGED <<md, tables, allocVars, varianceVars, auditVars>>

ProductsNext == \E data \in ProductCreates : create_product(data)

SpecProducts == ProductsInit /\ [][ProductsNext]_vars

ProductCodeExists(code) == \E i \in 1..Len(products) : products[i].code = code

NoTwoProductsShareACode ==
    \A i, j \in 1..Len(products) :
        products[i].code = products[j].code => i = j

\* C18: a create_product call for a code that exists is answered with 409
\* and leaves the products as they were, a call for a new code is answered
\* with 201 and adds the product, and no two products ever share a code.
C18_DuplicateCodeRejected ==
    [][/\ last'.op = "create_product"
       /\ IF ProductCodeExists(last'.data.code)
          THEN last'.status = 409 /\ products' = products
          ELSE /\ last'.status = 201
               /\ Len(products') = Len(products) + 1
               /\ products'[Len(products')].code = last'.data.code
               /\ SubSeq(products', 1, Len(products)) = products
       /\ NoTwoProductsShareACode']_vars

\* two products are there and the last call, for the code of the first
\* under another name, was answered with 409
C18_Witness ==
    /\ Len(products) = 2
    /\ last.op = "create_product" /\ last.status = 409
    /\ last.data.code = products[1].code /\ last.data.name # products[1].name
    /\ NoTwoProductsShareACode

(***************************************************************************)
(* The divisions of the cost and variance computations, each called with   *)
(* divisors that are zero, negative and positive: allocation over          *)
(* quantities or ratios that are all 0 or all 1, the Stage-1 unit cost,    *)
(* the Stage-2 unit cost and the variance percent.                         *)
(***************************************************************************)
DivisorsInit ==
    /\ StoreIdle
    /\ VarianceIdle
    /\ AuditIdle
    /\ MasterIdle
    /\ aTotal \in (0 - MaxTotal)..MaxTotal
    /\ aItems \in DistinctSeqs(AllocItems, 1, MaxItems)
    /\ aQty \in {[k \in AllocItems |-> 0], [k \in AllocItems |-> 1]}
    /\ aKind = "none"
    /\ aRes = [k \in {} |-> 0]

\* line 192 of cost_calculation.py: the division is evaluated only under
\* "if std_qty > 0"
CallCrudeUnitCost ==
    /\ \E total \in {0, MaxTotal, 3 * TicksPerUnit},
          std_qty \in {0 - QtyDen * QtyDen, 0, QtyDen * QtyDen, 3 * QtyDen * QtyDen} :
        last' = [op |-> "crude_unit_cost", total |-> total, std_qty |-> std_qty,
                 error |-> IF std_qty > 0 /\ std_qty = 0
                           THEN "DivisionByZero" ELSE "",
                 unit_cost |-> crude_unit_cost(total, std_qty)]
    /\ UNCHANGED <<md, tables, allocVars, varianceVars, auditVars, masterVars>>

\* lines 304-305 of cost_calculation.py: the division by lot_size is always
\* evaluated
CallProductUnitCost ==
    /\ \E total \in {0, MaxTotal, 3 * TicksPerUnit},
          standard_lot_size \in {0 - QtyDen, 0, QtyDen, 3 * QtyDen} :
       \E prod \in {[content_weight_g |-> 0,
                     standard_lot_size |-> standard_lot_size]} :
        last' = [op |-> "product_unit_cost", total |-> total,
                 standard_lot_size |-> standard_lot_size,
                 error |-> IF LotSize(prod) = 0 THEN "DivisionByZero" ELSE "",
                 unit_cost |-> IF LotSize(prod) = 0 THEN 0
                               ELSE product_unit_cost(total, prod)]
    /\ UNCHANGED <<md, tables, allocVars, varianceVars, auditVars, masterVars>>

\* _calc_percent: the division is evaluated only after "if standard == 0:
\* return ZERO"
CallCalcPercent ==
    /\ \E variance \in {0 - 20 * TicksPerUnit, 0, 7},
          standard \in {0 - 100 * TicksPerUnit, 0, 100 * TicksPerUnit} :
        last' = [op |-> "calc_percent", variance |-> variance,
                 standard |-> standard,
                 error |-> IF standard # 0 /\ standard = 0
                           THEN "DivisionByZero" ELSE "",
                 percent |-> calc_percent(variance, standard)]
    /\ UNCHANGED <<md, tables, allocVars, varianceVars, auditVars, masterVars>>

DivisorsNext ==
    \/ CallAllocateByQuantity
    \/ CallAllocateByRatio
    \/ CallCrudeUnitCost
    \/ CallProductUnitCost
    \/ CallCalcPercent

SpecDivisors == DivisorsInit /\ [][DivisorsNext]_vars

\* an allocation over quantities or ratios that sum to zero returned, and
\* returned zero for every item
ZeroSumAllocationGivesZero ==
    (aKind \notin {"none", "idle"} /\ AllocQtySum = 0) =>
        /\ aKind \in {"quantity", "ratio"}
        /\ \A k \in SeqToSet(aItems) : aRes[k] = 0

\* no Stage-1 unit cost raised, and it is zero for a standard quantity of zero
ZeroStandardQuantityGivesZero ==
    last.op = "crude_unit_cost" =>
        /\ last.error = ""
        /\ last.std_qty = 0 => last.unit_cost = 0

\* no variance percent raised, and it is zero for a standard amount of zero
ZeroStandardAmountGivesZero ==
    last.op = "calc_percent" =>
        /\ last.error = ""
        /\ last.standard = 0 => last.percent = 0

\* C19 (as stated): no computation raises on a zero divisor and each guarded
\* case reports zero, the Stage-2 unit cost of a product with a
\* standard_lot_size of zero among them.
C19_GuardedCasesReportZero ==
    /\ ZeroSumAllocationGivesZero
    /\ ZeroStandardQuantityGivesZero
    /\ ZeroStandardAmountGivesZero
    /\ last.op = "product_unit_cost" =>
          /\ last.error = ""
          /\ last.standard_lot_size = 0 => last.unit_cost = 0

\* C19 (amended): no computation raises on a zero divisor; allocation over a
\* zero sum, the Stage-1 unit cost over a zero standard quantity and the
\* variance percent over a zero standard amount report zero; the Stage-2
\* unit cost of a product whose standard_lot_size is not positive is its
\* total cost, the lot size being taken as 1.
C19_GuardedCasesNeverRaise ==
    /\ ZeroSumAllocationGivesZero
    /\ ZeroStandardQuantityGivesZero
    /\ ZeroStandardAmountGivesZero
    /\ last.op = "product_unit_cost" =>
          /\ last.error = ""
          /\ last.standard_lot_size <= 0 => last.unit_cost = last.total

\* a budget that is not zero was allocated over three quantities of zero,
\* and the unit cost of a product with lot size zero and a total of
\* 3.0000 is 3.0000
C19_Witness ==
    /\ aKind = "quantity" /\ AllocQtySum = 0 /\ Len(aItems) = 3
    /\ aTotal = MaxTotal /\ \A k \in SeqToSet(aItems) : aRes[k] = 0
    /\ last.op = "product_unit_cost" /\ last.error = ""
    /\ last.standard_lot_size = 0 /\ last.total = 3 * TicksPerUnit
    /\ last.unit_cost = 3 * TicksPerUnit

(***************************************************************************)
(* The effect of copy_standard_costs on the two cost tables.               *)
(***************************************************************************)

\* the rows of a table outside a period, in their order
RowsOutside(table, period_id) == SelectSeq(table, LAMBDA r : r.period_id # period_id)

\* what a copy from period p1 to period p2 made of a table: every item
\* with a row in p1 has one row in p2, which is the row the item had there
\* when it had one and overwrite is off, and else carries the cost columns
\* of the source row; the rows outside p2 are as they were
CopyEffect(before, after, key, cols, p1, p2, overwrite) ==
    /\ \A i \in 1..Len(before) :
          before[i].period_id = p1 =>
            LET old == RowsOf(before, key, before[i][key], p2)
                new == RowsOf(after, key, before[i][key], p2)
            IN  /\ Cardinality(new) = 1
                /\ \A j \in new :
                      IF old # {} /\ ~overwrite
                      THEN \A h \in old : after[j] = before[h]
                      ELSE \A c \in cols : after[j][c] = before[i][c]
    /\ RowsOutside(after, p2) = RowsOutside(before, p2)

\* C20: a copy_standard_costs(P1, P2, overwrite) that succeeds leaves every
\* item with a row in P1 with a row in P2, whose cost columns are the source
\* row's when it was inserted or overwrite is on and which is as before
\* when it existed and overwrite is off; the rows of P1 and of every period
\* other than P2 are unchanged.
C20_CopyEffect ==
    [][(last'.op = "copy" /\ last'.error = "") =>
          /\ CopyEffect(standard_costs, standard_costs', "product_id",
                        ProductCostColumns, last'.source_period_id,
                        last'.target_period_id, last'.overwrite)
          /\ CopyEffect(crude_product_standard_costs,
                        crude_product_standard_costs', "crude_product_id",
                        CrudeCostColumns, last'.source_period_id,
                        last'.target_period_id, last'.overwrite)]_vars

\* a copy from period 1 to period 2 without overwrite has inserted the row
\* of product 22 and skipped product 21, whose row in period 2 differs from
\* the one in period 1
C20_Witness ==
    /\ last.op = "copy" /\ last.error = "" /\ ~last.overwrite
    /\ last.source_period_id = 1 /\ last.target_period_id = 2
    /\ last.product_costs_copied = 1 /\ last.product_costs_skipped = 1
    /\ RowsOf(standard_costs, "product_id", 21, 2) # {}
    /\ SavedRow(standard_costs, "product_id", 21, 2).total_cost
         # SavedRow(standard_costs, "product_id", 21, 1).total_cost
    /\ SavedRow(standard_costs, "product_id", 22, 2).total_cost
         = SavedRow(standard_costs, "product_id", 22, 1).total_cost

(***************************************************************************)
(* Which VarianceRecord rows an analysis leaves.                           *)
(***************************************************************************)
AnalysisDone == last.op = "analyze" /\ last.error = ""

\* the product is in the targeted set of the last analysis
Targeted(product_id) == last.product_ids = {} \/ product_id \in last.product_ids

\* the number of VarianceRecord rows of a product, cost center and element
\* in the period of the last analysis
RecordCount(product_id, cost_center_id, cost_element) ==
    BagCardinality(
        [r \in {x \in BagToSet(variance_records) :
                    /\ x.product_id = product_id
                    /\ x.cost_center_id = cost_center_id
                    /\ x.period_id = last.period_id
                    /\ x.cost_element = cost_element} |-> variance_records[r]])

HasStandardCost(product_id) ==
    \E i \in 1..Len(standard_costs) :
        /\ standard_costs[i].product_id = product_id
        /\ standard_costs[i].period_id = last.period_id

HasActualCost(product_id, cost_center_id) ==
    \E i \in 1..Len(actual_costs) :
        /\ actual_costs[i].product_id = product_id
        /\ actual_costs[i].cost_center_id = cost_center_id
        /\ actual_costs[i].period_id = last.period_id

\* the ActualCost rows of the period whose product is targeted and has a
\* StandardCost row
AnalyzedActualRows ==
    {i \in 1..Len(actual_costs) :
        /\ actual_costs[i].period_id = last.period_id
        /\ Targeted(actual_costs[i].product_id)
        /\ HasStandardCost(actual_costs[i].product_id)}

\* C21 (as stated): after an analysis a VarianceRecord of a product, cost
\* center, the period and an element exists exactly when the product is
\* targeted, has a StandardCost row of the period and an ActualCost row of
\* the cost center and period; records_created is 5 times the number of
\* ActualCost rows of the analyzed products.
C21_RecordsExactlyOfTargeted ==
    AnalysisDone =>
        /\ \A product_id \in {21, 22}, cost_center_id \in {11, 12},
              e \in 1..Len(COST_ELEMENTS) :
                (RecordCount(product_id, cost_center_id, COST_ELEMENTS[e]) > 0)
                <=> /\ Targeted(product_id)
                    /\ HasStandardCost(product_id)
                    /\ HasActualCost(product_id, cost_center_id)
        /\ last.records_created = 5 * Cardinality(AnalyzedActualRows)

\* C21 (amended): after an analysis, for every product of the targeted set,
\* one VarianceRecord of the product, a cost center, the period and an
\* element exists when the product has a StandardCost row of the period and
\* an ActualCost row of the cost center and period, and none otherwise;
\* records_created is 5 times the number of ActualCost rows of the analyzed
\* products.
C21_RecordsOfTargetedProducts ==
    AnalysisDone =>
        /\ \A product_id \in {21, 22}, cost_center_id \in {11, 12},
              e \in 1..Len(COST_ELEMENTS) :
                Targeted(product_id) =>
                    RecordCount(product_id, cost_center_id, COST_ELEMENTS[e])
                    = IF /\ HasStandardCost(product_id)
                         /\ HasActualCost(product_id, cost_center_id)
                      THEN 1 ELSE 0
        /\ last.records_created = 5 * Cardinality(AnalyzedActualRows)

\* period 2 was analyzed over all products: product 21 has an ActualCost
\* row and five records, product 22 has an ActualCost row but no
\* StandardCost row in that period, and no record
C21_Witness ==
    /\ AnalysisDone /\ last.period_id = 2 /\ last.product_ids = {}
    /\ HasActualCost(21, 11) /\ HasActualCost(22, 11)
    /\ ~HasStandardCost(22)
    /\ last.records_created = 5
    /\ RecordCount(21, 11, "labor_cost") = 1
    /\ RecordCount(22, 11, "labor_cost") = 0

\* the VarianceRecord rows of a table outside a period and set of products
RecordsOutOfScope(table, period_id, product_ids) ==
    [r \in {x \in BagToSet(table) : ~InScope(x, period_id, product_ids)} |-> table[r]]

\* C22: an analysis leaves the VarianceRecords of other periods and, when a
\* product subset is given, of the products outside the subset as they
\* were; what it deletes and what it adds is of its period and products.
C22_AnalysisFrame ==
    [][last'.op = "analyze" =>
          /\ RecordsOutOfScope(variance_records', last'.period_id, last'.product_ids)
             = RecordsOutOfScope(variance_records, last'.period_id, last'.product_ids)
          /\ last'.records_deleted
             = BagCardinality(variance_records)
               - BagCardinality(RecordsOutOfScope(variance_records, last'.period_id,
                                                  last'.product_ids))]_vars

\* period 1 was analyzed for product 21 alone: its five records were
\* deleted and written again, and the records of product 22 in period 1,
\* left by an earlier analysis, are there
C22_Witness ==
    /\ AnalysisDone /\ last.period_id = 1 /\ last.product_ids = {21}
    /\ last.records_deleted = 5 /\ last.records_created = 5
    /\ RecordCount(21, 11, "labor_cost") = 1
    /\ RecordCount(22, 11, "labor_cost") = 1
    /\ BagCardinality(variance_records) = 10

(***************************************************************************)
(* Which ReconciliationResult rows a reconciliation leaves.                *)
(***************************************************************************)

\* the number of ReconciliationResult rows of a product in the period of
\* the last reconciliation
ResultCount(product_id) ==
    Cardinality({i \in 1..Len(reconciliation_results) :
        /\ reconciliation_results[i].period_id = last.period_id
        /\ reconciliation_results[i].entity_id = product_id})

\* the product has a row from sc_system or kanjyo_bugyo in that period
HasReconciledSource(product_id) ==
    \/ SourceTotals(product_id, last.period_id, "sc_system") # {}
    \/ SourceTotals(product_id, last.period_id, "kanjyo_bugyo") # {}

OneResultPerSourcedProduct ==
    \A product_id \in {21, 22} :
        ResultCount(product_id) = IF HasReconciledSource(product_id) THEN 1 ELSE 0

\* C23: after reconcile_period(period), whatever results were there, the
\* period has one ReconciliationResult row for each product with an
\* sc_system or kanjyo_bugyo ActualCost row in it and none for any other
\* product, and the rows of other periods are as they were.
C23_ResultsReplaced ==
    [][last'.op = "reconcile" =>
          /\ OneResultPerSourcedProduct'
          /\ RowsOutside(reconciliation_results', last'.period_id)
             = RowsOutside(reconciliation_results, last'.period_id)]_vars

\* period 1 was reconciled again after a row of product 21 from sc_system
\* and one of product 22 entered by hand: one result for 21, none for 22,
\* and the result of period 2 is still there
C23_Witness ==
    /\ Reconciled /\ last.period_id = 1
    /\ HasReconciledSource(21) /\ ~HasReconciledSource(22)
    /\ \E i \in 1..Len(actual_costs) :
          actual_costs[i].product_id = 22 /\ actual_costs[i].period_id = 1
    /\ ResultCount(21) = 1 /\ ResultCount(22) = 0
    /\ Len(RowsOutside(reconciliation_results, 1)) = 1

(***************************************************************************)
(* Which BOM header an owner is costed from.                               *)
(***************************************************************************)
CalculationDone == last.op = "calculate" /\ last.error = ""

\* the active headers of a type and owner that no active header of the
\* type and owner follows in effective date
LatestActiveHeaders(bom_type, field, owner) ==
    {i \in 1..Len(md.bom_headers) :
        /\ md.bom_headers[i].bom_type = bom_type
        /\ md.bom_headers[i].is_active
        /\ md.bom_headers[i][field] = owner
        /\ \A j \in 1..Len(md.bom_headers) :
              (/\ md.bom_headers[j].bom_type = bom_type
               /\ md.bom_headers[j].is_active
               /\ md.bom_headers[j][field] = owner)
              => md.bom_headers[j].effective_date <= md.bom_headers[i].effective_date}

\* the cost of the material lines of a header under the overrides of the
\* last calculation
HeaderMaterialCost(bom) ==
    SumLines([n \in 1..Len(bom.lines) |->
        IF bom.lines[n].material_id # 0 /\ bom.lines[n].crude_product_id = 0
        THEN MaterialLineCost(md, bom.lines[n], last.overrides) ELSE 0])

\* C24: every crude product and product that a calculation has costed is
\* costed from one header, an active one of the required type with the
\* latest effective date of its owner: its material (or packaging) cost and
\* its standard quantity are those of that header's lines.
C24_LatestActiveHeaderIsCosted ==
    CalculationDone =>
        /\ \A i \in 1..Len(last.crude_product_costs) :
              \E h \in LatestActiveHeaders("raw_material_process", "crude_product_id",
                            last.crude_product_costs[i].crude_product_id) :
                /\ last.crude_product_costs[i].material_cost
                   = HeaderMaterialCost(md.bom_headers[h])
                /\ last.crude_product_costs[i].standard_quantity
                   = IF last.simulate
                     THEN StandardQuantity(md.bom_headers[h])
                     ELSE Numeric4(StandardQuantity(md.bom_headers[h]),
                                   QtyDen * QtyDen)
        /\ \A i \in 1..Len(last.product_costs) :
              \E h \in LatestActiveHeaders("product_process", "product_id",
                            last.product_costs[i].product_id) :
                last.product_costs[i].packaging_cost
                = HeaderMaterialCost(md.bom_headers[h])

\* crude product 1 has two active headers: it is costed from the second,
\* the later one, whose material cost differs from the first's; product 22
\* has a packaging cost of zero though its inactive header, the latest by
\* date, has a material line
C24_Witness ==
    /\ CalculationDone
    /\ \E i \in 1..Len(last.crude_product_costs) :
          /\ last.crude_product_costs[i].crude_product_id = 1
          /\ last.crude_product_costs[i].material_cost
             = HeaderMaterialCost(md.bom_headers[2])
          /\ last.crude_product_costs[i].material_cost
             # HeaderMaterialCost(md.bom_headers[1])
    /\ \E i \in 1..Len(last.product_costs) :
          /\ last.product_costs[i].product_id = 22
          /\ last.product_costs[i].packaging_cost = 0
          /\ HeaderMaterialCost(md.bom_headers[6]) > 0

(***************************************************************************)
(* Which price a material line is costed at.                               *)
(***************************************************************************)

\* the price of a material under the overrides of the last calculation, by
\* the three tiers
TieredPrice(material_id) ==
    IF material_id \in DOMAIN last.overrides.material_prices
    THEN last.overrides.material_prices[material_id]
    ELSE IF md.materials[material_id].category
                \in DOMAIN last.overrides.category_rate_changes
         THEN RoundHalfUp(md.materials[material_id].standard_unit_price
                            * last.overrides.category_rate_changes[
                                    md.materials[material_id].category],
                          QtyDen)
         ELSE md.materials[material_id].standard_unit_price

\* the material lines of a header at the tiered prices
HeaderCostAtTieredPrices(bom) ==
    SumLines([n \in 1..Len(bom.lines) |->
        IF bom.lines[n].material_id # 0 /\ bom.lines[n].crude_product_id = 0
        THEN RoundHalfUp(TieredPrice(bom.lines[n].material_id)
                            * LineQtyWithLoss(bom.lines[n]),
                         QtyDen * QtyDen)
        ELSE 0])

PricesResolvedByTier ==
    CalculationDone =>
        /\ \A i \in 1..Len(last.crude_product_costs) :
              \E h \in LatestActiveHeaders("raw_material_process", "crude_product_id",
                            last.crude_product_costs[i].crude_product_id) :
                last.crude_product_costs[i].material_cost
                = HeaderCostAtTieredPrices(md.bom_headers[h])
        /\ \A i \in 1..Len(last.product_costs) :
              \E h \in LatestActiveHeaders("product_process", "product_id",
                            last.product_costs[i].product_id) :
                last.product_costs[i].packaging_cost
                = HeaderCostAtTieredPrices(md.bom_headers[h])

\* C25: in both stages a material line is costed at the individual override
\* of the material when there is one, even under a rate for its category;
\* else at the standard price times the rate of its category, rounded
\* half-up to 4 places, when there is one; else at the standard unit price.
\* Master data is never changed.
C25_PriceTiers ==
    [][md' = md /\ PricesResolvedByTier']_vars

\* material 31, a fruit, has an individual price of 3.0000 and its category
\* a rate: crude product 1, made of 31 alone, is costed at the individual
\* price, and product 21 has its packaging of material 32 at the standard
\* price
C25_Witness ==
    /\ CalculationDone
    /\ 31 \in DOMAIN last.overrides.material_prices
    /\ "fruit" \in DOMAIN last.overrides.category_rate_changes
    /\ TieredPrice(31) = 30000
    /\ TieredPrice(31) # RoundHalfUp(md.materials[31].standard_unit_price * 3, QtyDen)
    /\ \E i \in 1..Len(last.crude_product_costs) :
          /\ last.crude_product_costs[i].crude_product_id = 1
          /\ last.crude_product_costs[i].material_cost
             = RoundHalfUp(30000 * LineQtyWithLoss(md.bom_headers[2].lines[1]),
                           QtyDen * QtyDen)
    /\ \E i \in 1..Len(last.product_costs) :
          /\ last.product_costs[i].product_id = 21
          /\ last.product_costs[i].packaging_cost
             = RoundHalfUp(md.materials[32].standard_unit_price
                              * LineQtyWithLoss(md.bom_headers[4].lines[2]),
                           QtyDen * QtyDen)

(***************************************************************************)
(* execute_rule_based_allocation called directly, for the labor and        *)
(* overhead budgets of a cost center over items 1 and 2.                   *)
(***************************************************************************)

\* the rule sets of the store, and a manual wildcard rule without targets
AllocationRuleSets ==
    RuleSets \cup { << Rule(48, 11, "NULL", "manual", 0, TRUE, <<>>) >> }

\* the metrics item_data may hold for items 1 and 2
ItemDataChoices ==
    { (1 :> [raw_material_quantity |-> 0, weight |-> 2])
          @@ (2 :> [raw_material_quantity |-> 0, weight |-> 2]),
      (1 :> [raw_material_quantity |-> 3, weight |-> 2])
          @@ (2 :> [raw_material_quantity |-> 5, weight |-> 0]),
      (1 :> [raw_material_quantity |-> 0, weight |-> 0])
          @@ (2 :> [raw_material_quantity |-> 5, weight |-> 2]) }

RuleAllocationInit ==
    /\ AllocIdle
    /\ \E rules \in AllocationRuleSets :
            md = [EmptyMd EXCEPT !.allocation_rules = rules]
    /\ standard_costs = <<>>
    /\ crude_product_standard_costs = <<>>
    /\ cost_allocations = <<>>
    /\ last = [op |-> "none"]
    /\ VarianceIdle
    /\ AuditIdle
    /\ MasterIdle

\* a call of execute_rule_based_allocation: what it returns and the
\* CostAllocation rows it adds
ExecuteRuleBasedAllocation ==
    /\ \E source_cost_center_id \in {11, 12}, labor \in {0, 100001},
          item_data \in ItemDataChoices, period_id \in {0, 1},
          simulate \in BOOLEAN :
       \E budgets \in {[labor |-> labor, overhead |-> 50000]} :
       \E out \in {execute_rule_based_allocation(md.allocation_rules,
                        source_cost_center_id, <<"labor", "overhead">>, budgets,
                        <<1, 2>>, item_data, period_id, simulate,
                        "raw_material_quantity")} :
            /\ Len(cost_allocations) + Len(out.records) <= MaxAllocationRows
            /\ cost_allocations' = cost_allocations \o out.records
            /\ last' = [op |-> "execute_rule_based_allocation",
                        source_cost_center_id |-> source_cost_center_id,
                        budgets |-> budgets, items |-> <<1, 2>>,
                        item_data |-> item_data, period_id |-> period_id,
                        simulate |-> simulate,
                        default_basis |-> "raw_material_quantity",
                        result |-> out.result]
    /\ UNCHANGED <<md, standard_costs, crude_product_standard_costs,
                   allocVars, varianceVars, auditVars, masterVars>>

RuleAllocationNext == ExecuteRuleBasedAllocation

SpecRuleAllocation == RuleAllocationInit /\ [][RuleAllocationNext]_vars

AllocationCalled == last.op = "execute_rule_based_allocation"

\* the rule that matches a cost element in the last call
MatchedRule(cost_element) ==
    find_matching_rule(
        load_allocation_rules(md.allocation_rules, last.source_cost_center_id),
        cost_element)

\* the basis quantities of the items in the last call for a cost element
BasisQuantities(cost_element) ==
    compute_allocation_quantities(
        ElementBasis(MatchedRule(cost_element), last.default_basis),
        last.items, last.item_data)

\* the CostAllocation row the claim gives an item for a cost element
AuditRowOf(cost_element, k) ==
    [rule_id |-> MatchedRule(cost_element).id,
     period_id |-> last.period_id,
     source_cost_center_id |-> last.source_cost_center_id,
     target_cost_center_id |-> last.source_cost_center_id,
     cost_element |-> cost_element,
     item |-> k,
     allocated_amount |-> Get(last.result[cost_element], k),
     basis_quantity |-> BasisQuantities(cost_element)[k],
     ratio |-> IF SumOver(BasisQuantities(cost_element), last.items, Len(last.items)) > 0
               THEN RoundHalfUp(BasisQuantities(cost_element)[k] * TicksPerUnit,
                        SumOver(BasisQuantities(cost_element), last.items,
                                Len(last.items)))
               ELSE 0]

\* the rows the claim has written for a cost element: none in simulation,
\* without a period, without a matching rule or for a budget of zero, else
\* one for each item with an amount that is not zero
AuditRowsClaimed(cost_element) ==
    IF /\ ~last.simulate /\ last.period_id # 0
       /\ MatchedRule(cost_element) # NoRule
       /\ last.budgets[cost_element] # 0
    THEN SelectSeq([i \in 1..Len(last.items) |-> AuditRowOf(cost_element, last.items[i])],
                   LAMBDA r : r.allocated_amount # 0)
    ELSE <<>>

\* C26 (as stated): the CostAllocation rows a call of
\* execute_rule_based_allocation adds are, for each cost element with a
\* matching rule and a budget that is not zero, outside simulation and with
\* a period, one row for each item with an allocated amount that is not
\* zero, holding the item's basis quantity and its ratio of the total
\* quantity; in every other case none.
C26_AuditRowsPerItem ==
    [][last'.op = "execute_rule_based_allocation" =>
          cost_allocations' = cost_allocations \o AuditRowsClaimed("labor")'
                                               \o AuditRowsClaimed("overhead")']_vars

\* the same, for the calls in which no manual rule with targets matches
C26_AuditRowsPerItemWithoutTargets ==
    [][(/\ last'.op = "execute_rule_based_allocation"
        /\ ~UsesTargetRatios(MatchedRule("labor")')
        /\ ~UsesTargetRatios(MatchedRule("overhead")')) =>
          cost_allocations' = cost_allocations \o AuditRowsClaimed("labor")'
                                               \o AuditRowsClaimed("overhead")']_vars

\* the overhead budget of cost center 11 went by the manual rule with
\* targets 11 and 13: the rows written are of the two cost centers, with a
\* basis quantity and a ratio of zero, and the items got nothing
C26_Witness ==
    /\ AllocationCalled /\ ~last.simulate /\ last.period_id = 1
    /\ UsesTargetRatios(MatchedRule("overhead"))
    /\ DOMAIN last.result["overhead"] = {11, 13}
    /\ \E i \in 1..Len(cost_allocations) :
          /\ cost_allocations[i].cost_element = "overhead"
          /\ cost_allocations[i].item = 13
          /\ cost_allocations[i].allocated_amount = 20000
          /\ cost_allocations[i].basis_quantity = 0
          /\ cost_allocations[i].ratio = 0
    /\ last.item_data[1].raw_material_quantity = 3
    /\ last.item_data[2].raw_material_quantity = 5

\* the item ids the map returned for a cost element has as keys
ResultKeys(cost_element) == DOMAIN last.result[cost_element]

\* the item ids of item_data in the last call
ItemIds == {last.items[i] : i \in 1..Len(last.items)}

\* C28 (as stated): for every cost element the map returned by
\* execute_rule_based_allocation has exactly the item ids of item_data as
\* its keys, in every branch.
C28_ResultKeysAreItemIds ==
    AllocationCalled =>
        \A cost_element \in DOMAIN last.result :
            ResultKeys(cost_element) = ItemIds

\* the keys are the item ids in every branch but that of a manual rule
\* with targets
C28_ResultKeysAreItemIdsWithoutTargets ==
    AllocationCalled =>
        \A cost_element \in DOMAIN last.result :
            (last.budgets[cost_element] = 0
                \/ ~UsesTargetRatios(MatchedRule(cost_element)))
                => ResultKeys(cost_element) = ItemIds

\* the overhead budget went by the manual rule with targets 11 and 13, in
\* a simulation: the keys returned are the cost centers, and the labor
\* budget, by the raw_material_quantity rule, has the items as keys
C28_Witness ==
    /\ AllocationCalled /\ last.simulate
    /\ last.budgets["labor"] = 100001
    /\ MatchedRule("labor").id = 45
    /\ ResultKeys("labor") = {1, 2}
    /\ MatchedRule("overhead").id = 44
    /\ ResultKeys("overhead") = {11, 13}
    /\ ItemIds = {1, 2}

\* a budget of the department of a type in the period of the last
\* calculation, after the overrides of the call
BudgetOfRun(cost_center_type, field) ==
    BudgetAfterOverride(load_budgets(md, last.period_id, cost_center_type),
                        field, last.overrides.budget_changes)

\* the sum of a cost column over the results of the last calculation
CostSum(results, field) == SumLines([i \in 1..Len(results) |-> results[i][field]])

\* some crude product of the run has a positive standard quantity
SomeCrudeQuantityPositive ==
    \E i \in 1..Len(last.crude_product_costs) :
        last.crude_product_costs[i].standard_quantity > 0

\* the budgets of the two departments are what the results of the run sum to
BudgetsConserved ==
    /\ SomeCrudeQuantityPositive =>
          /\ CostSum(last.crude_product_costs, "labor_cost")
                = BudgetOfRun("manufacturing", "labor_budget")
          /\ CostSum(last.crude_product_costs, "overhead_cost")
                = BudgetOfRun("manufacturing", "overhead_budget")
    /\ CostSum(last.product_costs, "labor_cost")
          = BudgetOfRun("product", "labor_budget")
    /\ CostSum(last.product_costs, "overhead_cost")
          = BudgetOfRun("product", "overhead_budget")
    /\ CostSum(last.product_costs, "outsourcing_cost")
          = BudgetOfRun("product", "outsourcing_budget")

\* C27 (as stated): when a crude product with a Stage-1 BOM has a positive
\* standard quantity, the labor costs of the crude-product results of a
\* run sum to the manufacturing labor budget after overrides, and likewise
\* the overhead; the labor, overhead and outsourcing costs of the product
\* results sum to the budgets of the product department.
C27_BudgetConservation == CalculationDone => BudgetsConserved

\* no rule of the store has targets
NoRuleHasTargets ==
    \A i \in 1..Len(md.allocation_rules) : md.allocation_rules[i].targets = <<>>

\* the budgets are conserved in the stores where no rule has targets
C27_BudgetConservationWithoutTargets ==
    (CalculationDone /\ NoRuleHasTargets) => BudgetsConserved

\* period 1 was calculated under the manual wildcard rule of cost center
\* 11: the labor budget is in the crude-product results, the overhead
\* budget of 5.0000 is in none of them
C27_Witness ==
    /\ CalculationDone /\ ~last.simulate /\ last.period_id = 1
    /\ ~NoRuleHasTargets
    /\ SomeCrudeQuantityPositive
    /\ Len(last.crude_product_costs) = 2
    /\ CostSum(last.crude_product_costs, "labor_cost") = 100001
    /\ BudgetOfRun("manufacturing", "overhead_budget") = 50000
    /\ CostSum(last.crude_product_costs, "overhead_cost") = 0
    /\ \E i \in 1..Len(cost_allocations) :
          /\ cost_allocations[i].cost_element = "overhead"
          /\ cost_allocations[i].item = 13
          /\ cost_allocations[i].allocated_amount = 20000

\* a calculation of a product-id subset went through
SubsetCalculated ==
    CalculationDone /\ last.product_ids # {}

\* the product results of a calculation of the whole period on the data m
\* with the overrides of a call
WholePeriodResults(m, call) ==
    Computed(m, call.period_id, {}, TRUE, call.overrides).product.results

\* the data without the product BOMs of the products outside a subset
SubsetData(m, product_ids) ==
    [m EXCEPT !.bom_headers =
        SelectSeq(m.bom_headers,
                  LAMBDA h : h.bom_type # "product_process"
                             \/ h.product_id \in product_ids)]

SameFigures(row, other, fields) == \A f \in fields : row[f] = other[f]

\* every product result of a call is of a product of its subset and has
\* the figures that the results of another calculation have in some fields
SubsetFigures(call, other, fields) ==
    \A i \in 1..Len(call.product_costs) :
        /\ call.product_costs[i].product_id \in call.product_ids
        /\ SameFigures(call.product_costs[i],
                       other[call.product_costs[i].product_id], fields)

\* the StandardCost rows of the products outside the subset of a call
RowsOutsideSubset(table, product_ids) ==
    SelectSeq(table, LAMBDA r : r.product_id \notin product_ids)

\* C29 (as stated): a calculation of a product-id subset gives each product
\* of the subset the labor, overhead, outsourcing, total and unit cost of a
\* calculation of the whole period on the same data, and leaves the
\* StandardCost rows of the products outside the subset as they were.
C29_SubsetEqualsWholePeriod ==
    [][SubsetCalculated' =>
          /\ \E whole \in {WholePeriodResults(md', last')} :
                SubsetFigures(last', whole,
                    {"labor_cost", "overhead_cost", "outsourcing_cost",
                     "total_cost", "unit_cost"})
          /\ RowsOutsideSubset(standard_costs', last'.product_ids)
                = RowsOutsideSubset(standard_costs, last'.product_ids)]_vars

\* C29 (amended): a calculation of a product-id subset gives each product
\* of the subset the crude-product and packaging cost of a calculation of
\* the whole period, and the labor, overhead, outsourcing, total and unit
\* cost of a calculation of the whole period on data that holds the product
\* BOMs of the subset only (the budgets are allocated among the products of
\* the subset); the StandardCost rows of the other products stay as they
\* were.
C29_SubsetEqualsRestrictedPeriod ==
    [][SubsetCalculated' =>
          /\ \E whole \in {WholePeriodResults(md', last')} :
                SubsetFigures(last', whole, {"crude_product_cost", "packaging_cost"})
          /\ \E restricted \in
                {WholePeriodResults(SubsetData(md', last'.product_ids), last')} :
                SubsetFigures(last', restricted,
                    {"crude_product_cost", "packaging_cost", "labor_cost",
                     "overhead_cost", "outsourcing_cost", "total_cost",
                     "unit_cost"})
          /\ RowsOutsideSubset(standard_costs', last'.product_ids)
                = RowsOutsideSubset(standard_costs, last'.product_ids)]_vars

\* product 21 alone was calculated and saved in period 1 after the whole
\* period had been: it carries the whole labor budget of the product
\* department, and the row of product 22 holds its share of the first run
C29_Witness ==
    /\ SubsetCalculated /\ ~last.simulate /\ last.period_id = 1
    /\ last.product_ids = {21}
    /\ Len(last.product_costs) = 1
    /\ last.product_costs[1].labor_cost = 70001
    /\ WholePeriodResults(md, last)[21].labor_cost = 35001
    /\ \E i \in 1..Len(standard_costs) :
          /\ standard_costs[i].product_id = 22
          /\ standard_costs[i].period_id = 1
          /\ standard_costs[i].labor_cost = 35000

(***************************************************************************)
(* The summary report of a period, read after analyses of it.              *)
(***************************************************************************)

RECURSIVE SumRecords(_, _, _)
\* the sum of a column over some rows of a table kept as a bag
SumRecords(records, rows, field) ==
    IF rows = {} THEN 0
    ELSE LET r == CHOOSE x \in rows : TRUE
         IN  records[r] * r[field] + SumRecords(records, rows \ {r}, field)

\* the entry of by_element for one cost element, from its rows
ElementSummary(records, rows, elem) ==
    [cost_element |-> elem,
     total_standard |-> SumRecords(records, rows, "standard_amount"),
     total_actual |-> SumRecords(records, rows, "actual_amount"),
     total_variance |-> SumRecords(records, rows, "variance_amount"),
     favorable_count |->
        SumRecords(records, {r \in rows : r.is_favorable}, "one"),
     unfavorable_count |->
        SumRecords(records, {r \in rows : ~r.is_favorable}, "one"),
     flagged_count |-> SumRecords(records, {r \in rows : r.is_flagged}, "one"),
     average_variance_percent |->
        RoundHalfUp(SumRecords(records, rows, "variance_percent"),
                    SumRecords(records, rows, "one"))]

\* "overall_std = sum(e['total_standard'] for e in by_element.values())"
OverallStandard(records, rows) == SumRecords(records, rows, "standard_amount")

\* Mutant: the summary reads the records of every period
PeriodRecords_all_periods(records, period_id) == DOMAIN records

\* "select(VarianceRecord).where(VarianceRecord.period_id == period_id)"
PeriodRecords(records, period_id) ==
    {r \in DOMAIN records : r.period_id = period_id}

\* get_variance_summary(db, period_id) over the VarianceRecord table
get_variance_summary(variance_table, period_id) ==
    LET \* every row with a column "one" of 1, to count rows by summing
        records == [r \in {q @@ [one |-> 1] : q \in DOMAIN variance_table}
                        |-> variance_table[[f \in DOMAIN r \ {"one"} |-> r[f]]]]
        rows == PeriodRecords(records, period_id)
        elems == {r.cost_element : r \in rows}
    IN  IF rows = {}
        THEN [period_id |-> period_id, total_products |-> 0, total_records |-> 0,
              total_flagged |-> 0, overall_standard |-> 0, overall_actual |-> 0,
              overall_variance |-> 0, by_element |-> EmptyMap]
        ELSE [period_id |-> period_id,
              total_products |-> Cardinality({r.product_id : r \in rows}),
              total_records |-> SumRecords(records, rows, "one"),
              total_flagged |->
                SumRecords(records, {r \in rows : r.is_flagged}, "one"),
              overall_standard |-> OverallStandard(records, rows),
              overall_actual |-> SumRecords(records, rows, "actual_amount"),
              overall_variance |->
                SumRecords(records, rows, "actual_amount")
                    - OverallStandard(records, rows),
              by_element |->
                [e \in elems |->
                    ElementSummary(records, {r \in rows : r.cost_element = e}, e)]]

\* GET /variance/summary/{period_id}
GetVarianceSummary ==
    /\ \E period_id \in md.periods :
            last' = [op |-> "get_variance_summary", error |-> "",
                     summary |-> get_variance_summary(variance_records, period_id),
                     after |-> IF last.op = "analyze" THEN last ELSE [op |-> "none"]]
    /\ UNCHANGED <<md, tables, allocVars, varianceVars, auditVars, masterVars>>

SummaryNext == CreateActualCostCall \/ RunVarianceAnalysis \/ GetVarianceSummary

SpecSummary == VarianceInit /\ [][SummaryNext]_vars

\* the summary of a period was read right after an analysis of all the
\* products of that period
SummaryAfterAnalysis ==
    /\ last.op = "get_variance_summary"
    /\ last.after.op = "analyze"
    /\ last.after.product_ids = {}
    /\ last.after.period_id = last.summary.period_id

\* the counts and the actual total of the summary are those of the analysis
SummaryCountsAgree ==
    /\ last.summary.overall_actual = last.after.total_actual
    /\ last.summary.total_records = last.after.records_created
    /\ last.summary.total_flagged = last.after.flagged_count

\* C30 (as stated): right after analyze_variances of a period over all
\* products, get_variance_summary of the period reports overall_standard,
\* overall_actual and overall_variance equal to the total_standard,
\* total_actual and total_variance of the analysis, and total_records and
\* total_flagged equal to its records_created and flagged_count, for any
\* number of ActualCost rows of a product.
C30_SummaryEqualsAnalysis ==
    SummaryAfterAnalysis =>
        /\ SummaryCountsAgree
        /\ last.summary.overall_standard = last.after.total_standard
        /\ last.summary.overall_variance = last.after.total_variance

\* no product has ActualCost rows of two cost centers in the period
OneActualRowPerProduct ==
    \A i, j \in 1..Len(actual_costs) :
        (/\ actual_costs[i].product_id = actual_costs[j].product_id
         /\ actual_costs[i].period_id = actual_costs[j].period_id
         /\ actual_costs[i].period_id = last.summary.period_id) => i = j

\* C30 (amended): right after analyze_variances of a period over all
\* products, get_variance_summary of the period reports total_records,
\* total_flagged and overall_actual equal to the records_created,
\* flagged_count and total_actual of the analysis; overall_standard and
\* overall_variance equal its total_standard and total_variance when no
\* product has ActualCost rows of two cost centers in the period.
C30_SummaryEqualsAnalysisOneRowPerProduct ==
    SummaryAfterAnalysis =>
        /\ SummaryCountsAgree
        /\ OneActualRowPerProduct =>
              /\ last.summary.overall_standard = last.after.total_standard
              /\ last.summary.overall_variance = last.after.total_variance

\* product 21 has ActualCost rows of cost centers 11 and 12 in period 1:
\* the analysis counts its standard cost once, the summary once for each
\* cost center
C30_Witness ==
    /\ SummaryAfterAnalysis
    /\ last.summary.period_id = 1
    /\ Len(actual_costs) = 2
    /\ \A i \in 1..2 : actual_costs[i].product_id = 21 /\ actual_costs[i].period_id = 1
    /\ last.after.total_standard = 1000170
    /\ last.summary.overall_standard = 2000340
    /\ last.summary.total_records = 10
    /\ last.after.records_created = 10

====
